---- MODULE Spec2Model ----
(***************************************************************************)
(* Task execution and scheduling core of PyFastAdmin: the task registry,   *)
(* the Redis-Streams queue worker with retry / dead-letter routing, the    *)
(* monitor store, the periodic scheduler with static sharding and the      *)
(* multi-process supervisor.                                               *)
(*                                                                         *)
(* One module, several specifications over the same variables: each        *)
(* specification drives one subsystem and leaves the other subsystems'     *)
(* variables at their initial value.                                       *)
(*                                                                         *)
(* Conventions.  Python's Optional[T] is a sequence of length 0 (None) or  *)
(* 1 (the value).  A decimal string is the sequence of its digit           *)
(* characters.  A Redis stream id is a positive integer, the empty string  *)
(* "" of source_message_id is the id 0.                                    *)
(***************************************************************************)
EXTENDS Integers, Sequences, FiniteSets, TLC

VARIABLES
    periodic_tasks,    \* task_registry._periodic_tasks, in insertion order
    queue_consumers,   \* task_registry._queue_consumers, in insertion order
    reg_call,          \* the last registry call: its kind and normalized key
    reg_raised,        \* what the last registry call raised ("" = returned)
    config,            \* app.config values read by the workers
    streams,           \* Redis: stream name -> [entries, last_id]
    groups,            \* Redis: <<stream, group>> -> [last_delivered, pel]
    monitor,           \* Redis: consumer monitor hashes, by consumer key
    heartbeats,        \* Redis: heartbeat keys present
    qw,                \* queue worker processes: program counter and locals
    qhist,             \* history of the queue run (what was observed)
    sup,               \* ProcessSupervisor: its fields and position in run()
    children,          \* ProcessSupervisor._processes and the child processes
    shist,             \* history of the supervisor run (what was observed)
    pw,                \* periodic worker processes: program counter and locals
    pstore,            \* Redis: periodic monitor hashes, by task key
    clock,             \* the wall clock, in seconds
    shard_in,          \* arguments of the _assign_tasks calls under study
    shard_out,         \* results of those calls, by worker_index
    client             \* a process calling the services: its last call

regVars == <<periodic_tasks, queue_consumers, reg_call, reg_raised>>
redisVars == <<streams, groups, monitor, heartbeats>>
queueVars == <<config, redisVars, qw, qhist>>
supVars == <<sup, children, shist>>
periodicVars == <<pw, pstore, clock>>
shardVars == <<shard_in, shard_out>>
clientVars == <<client>>
nonQueueVars == <<regVars, supVars, periodicVars, shardVars, clientVars>>
vars == <<regVars, queueVars, supVars, periodicVars, shardVars, clientVars>>

None == <<>>
Some(v) == <<v>>

Max(a, b) == IF a >= b THEN a ELSE b

(***************************************************************************)
(* str(), strip() and int() of Python, on the strings the model uses.      *)
(***************************************************************************)

\* str.strip() on the raw strings of the model: surrounding blanks removed.
StripTable ==
    (" " :> "") @@ (" a " :> "a") @@ (" b " :> "b") @@ (" dlq " :> "dlq")

StripNothing(s) == s

Strip(s) == IF s \in DOMAIN StripTable THEN StripTable[s] ELSE s

\* str(x) of an Optional[str]: str(None) is the four letters "None".
StrOfOptional(x) == IF x = None THEN "None" ELSE x[1]

Digits == <<"0", "1", "2", "3", "4", "5", "6", "7", "8", "9">>

RECURSIVE NatToStr(_)
NatToStr(n) ==
    IF n < 10 THEN <<Digits[n + 1]>>
    ELSE Append(NatToStr(n \div 10), Digits[(n % 10) + 1])

\* str(n) of an int.
IntToStr(n) == IF n < 0 THEN <<"-">> \o NatToStr(-n) ELSE NatToStr(n)

DigitValue(c) == CHOOSE d \in 0..9 : Digits[d + 1] = c

IsDigits(s) ==
    /\ Len(s) > 0
    /\ \A i \in 1..Len(s) : \E d \in 0..9 : Digits[d + 1] = s[i]

RECURSIVE DigitsToNat(_)
DigitsToNat(s) ==
    IF Len(s) = 0 THEN 0
    ELSE 10 * DigitsToNat(SubSeq(s, 1, Len(s) - 1)) + DigitValue(s[Len(s)])

\* int(s): Some(value), or None where Python raises ValueError.
ParseInt(s) ==
    IF IsDigits(s) THEN Some(DigitsToNat(s))
    ELSE IF Len(s) > 1 /\ s[1] = "-" /\ IsDigits(Tail(s))
         THEN Some(-DigitsToNat(Tail(s)))
         ELSE None

(***************************************************************************)
(* Task registry (app/services/task_registry.py).                          *)
(***************************************************************************)

RECURSIVE NormalizeTagsFrom(_, _)
NormalizeTagsFrom(raw, tags) ==
    IF raw = <<>> THEN tags
    ELSE LET value == Strip(Head(raw))
         IN  IF value = "" \/ \E i \in 1..Len(tags) : tags[i] = value
             THEN NormalizeTagsFrom(Tail(raw), tags)
             ELSE NormalizeTagsFrom(Tail(raw), Append(tags, value))

normalize_tags(raw_tags) == NormalizeTagsFrom(raw_tags, <<>>)

HasKey(catalog, k) == \E i \in 1..Len(catalog) : catalog[i].key = k

\* The outcome of register_periodic_task on catalog: what it raised and
\* the catalog afterwards.
RegisterPeriodicDropDuplicateCheck(catalog, a) ==
    LET normalized_key == Strip(a.key)
        normalized_name == Strip(a.name)
        definition == [key |-> normalized_key,
                       name |-> normalized_name,
                       interval_seconds |-> a.interval_seconds,
                       runner |-> a.runner,
                       tags |-> normalize_tags(a.tags)]
    IN  IF normalized_key = "" THEN [raised |-> "ValueError:key", catalog |-> catalog]
        ELSE IF normalized_name = "" THEN [raised |-> "ValueError:name", catalog |-> catalog]
        ELSE IF a.interval_seconds <= 0
             THEN [raised |-> "ValueError:interval", catalog |-> catalog]
        ELSE IF HasKey(catalog, normalized_key)
             THEN [raised |-> "",
                   catalog |-> [i \in 1..Len(catalog) |->
                                  IF catalog[i].key = normalized_key
                                  THEN definition ELSE catalog[i]]]
        ELSE [raised |-> "", catalog |-> Append(catalog, definition)]

register_periodic_task(catalog, a) ==
    LET normalized_key == Strip(a.key)
        normalized_name == Strip(a.name)
        definition == [key |-> normalized_key,
                       name |-> normalized_name,
                       interval_seconds |-> a.interval_seconds,
                       runner |-> a.runner,
                       tags |-> normalize_tags(a.tags)]
    IN  IF normalized_key = "" THEN [raised |-> "ValueError:key", catalog |-> catalog]
        ELSE IF normalized_name = "" THEN [raised |-> "ValueError:name", catalog |-> catalog]
        ELSE IF a.interval_seconds <= 0
             THEN [raised |-> "ValueError:interval", catalog |-> catalog]
        ELSE IF HasKey(catalog, normalized_key)
             THEN [raised |-> "ValueError:duplicate", catalog |-> catalog]
        ELSE [raised |-> "", catalog |-> Append(catalog, definition)]

\* max_retries if max_retries is None else max(int(max_retries), 0)
NormalizeMaxRetries(m) == IF m = None THEN None ELSE Some(Max(m[1], 0))

\* (str(dead_letter_stream).strip() or None)
NormalizeDeadLetterStream(d) ==
    IF Strip(StrOfOptional(d)) = "" THEN None ELSE Some(Strip(StrOfOptional(d)))

register_queue_consumer(catalog, a) ==
    LET normalized_key == Strip(a.key)
        normalized_name == Strip(a.name)
        normalized_stream == Strip(a.stream)
        normalized_group == Strip(a.group)
        definition == [key |-> normalized_key,
                       name |-> normalized_name,
                       stream |-> normalized_stream,
                       group |-> normalized_group,
                       handler |-> a.handler,
                       tags |-> normalize_tags(a.tags),
                       max_retries |-> NormalizeMaxRetries(a.max_retries),
                       dead_letter_stream |->
                           NormalizeDeadLetterStream(a.dead_letter_stream)]
    IN  IF normalized_key = "" THEN [raised |-> "ValueError:key", catalog |-> catalog]
        ELSE IF normalized_name = "" THEN [raised |-> "ValueError:name", catalog |-> catalog]
        ELSE IF normalized_stream = ""
             THEN [raised |-> "ValueError:stream", catalog |-> catalog]
        ELSE IF normalized_group = ""
             THEN [raised |-> "ValueError:group", catalog |-> catalog]
        ELSE IF HasKey(catalog, normalized_key)
             THEN [raised |-> "ValueError:duplicate", catalog |-> catalog]
        ELSE [raised |-> "", catalog |-> Append(catalog, definition)]

list_periodic_tasks == periodic_tasks
list_queue_consumers == queue_consumers

(***************************************************************************)
(* Redis Streams, as the queue service uses them.                          *)
(***************************************************************************)

\* XADD's MAXLEN of enqueue_task (its default) and move_to_dead_letter.
StreamMaxLen == 10000

StreamEntries(name) ==
    IF name \in DOMAIN streams THEN streams[name].entries ELSE <<>>

StreamLastId(name) ==
    IF name \in DOMAIN streams THEN streams[name].last_id ELSE 0

\* XADD name MAXLEN ~ maxlen * fields: the id given, and the states the
\* server may be in afterwards (the trim is approximate: entries beyond
\* maxlen may or may not be evicted, oldest first).
XAddId(name) == StreamLastId(name) + 1

XAddTrimmed(entries, maxlen) ==
    IF Len(entries) > maxlen
    THEN {entries, SubSeq(entries, Len(entries) - maxlen + 1, Len(entries))}
    ELSE {entries}

XAdd(name, fields, maxlen) ==
    LET id == XAddId(name)
        appended == Append(StreamEntries(name), [id |-> id, fields |-> fields])
    IN  { [n \in DOMAIN streams \cup {name} |->
              IF n = name THEN [entries |-> kept, last_id |-> id]
              ELSE streams[n]] : kept \in XAddTrimmed(appended, maxlen) }

GroupKey(stream, group) == <<stream, group>>

\* XGROUP CREATE stream group 0 MKSTREAM: "BUSYGROUP" when the group exists.
XGroupCreateBusy(stream, group) == GroupKey(stream, group) \in DOMAIN groups

XGroupCreateGroupsAtEnd(stream, group) ==
    groups @@ (GroupKey(stream, group) :>
                  [last_delivered |-> StreamLastId(stream), pel |-> {}])

XGroupCreateGroups(stream, group) ==
    groups @@ (GroupKey(stream, group) :> [last_delivered |-> 0, pel |-> {}])

XGroupCreateStreams(stream) ==
    IF stream \in DOMAIN streams THEN streams
    ELSE streams @@ (stream :> [entries |-> <<>>, last_id |-> 0])

\* XREADGROUP GROUP group consumer COUNT 1 STREAMS stream ">": the entries
\* never delivered to the group, oldest first.
NewEntriesAndPending(stream, group) ==
    LET es == StreamEntries(stream)
        g == groups[GroupKey(stream, group)]
    IN  SelectSeq(es, LAMBDA e : e.id > g.last_delivered
                                   \/ e.id \in {p.id : p \in g.pel})

NewEntries(stream, group) ==
    LET es == StreamEntries(stream)
        last == groups[GroupKey(stream, group)].last_delivered
    IN  SelectSeq(es, LAMBDA e : e.id > last)

XReadGroupNoGroup(stream, group) ==
    \/ GroupKey(stream, group) \notin DOMAIN groups
    \/ stream \notin DOMAIN streams

XReadGroupGroups(stream, group, consumer, e) ==
    [groups EXCEPT ![GroupKey(stream, group)] =
        [last_delivered |-> e.id,
         pel |-> @.pel \cup {[id |-> e.id, consumer |-> consumer]}]]

\* XACK stream group id
XAckWrongId(stream, group, id) ==
    IF GroupKey(stream, group) \in DOMAIN groups
    THEN [groups EXCEPT ![GroupKey(stream, group)].pel =
              {p \in @ : p.id # id + 1}]
    ELSE groups

XAck(stream, group, id) ==
    IF GroupKey(stream, group) \in DOMAIN groups
    THEN [groups EXCEPT ![GroupKey(stream, group)].pel =
              {p \in @ : p.id # id}]
    ELSE groups

Pending(stream, group) ==
    IF GroupKey(stream, group) \in DOMAIN groups
    THEN {p.id : p \in groups[GroupKey(stream, group)].pel}
    ELSE {}

(***************************************************************************)
(* Queue service (app/services/queue_service.py).                          *)
(***************************************************************************)

\* A payload dict is the sequence of its items in insertion order, each
\* [key, value] with a str key (a sequence of characters) and a value that
\* is a str, an int, a bool or None.  JSON text is a sequence of characters.
JStr(s) == [kind |-> "str", str |-> s, int |-> 0]
JInt(n) == [kind |-> "int", str |-> <<>>, int |-> n]
JBool(b) == [kind |-> "bool", str |-> <<>>, int |-> IF b THEN 1 ELSE 0]
JNull == [kind |-> "null", str |-> <<>>, int |-> 0]

\* ensure_ascii=True: a character outside ASCII is written as \uXXXX.
UnicodeEscapes == ("U+00E9" :> <<"0", "0", "e", "9">>)

EscapeCharRaw(c) == <<c>>

EscapeChar(c) ==
    IF c = "\"" THEN <<"\\", "\"">>
    ELSE IF c = "\\" THEN <<"\\", "\\">>
    ELSE IF c \in DOMAIN UnicodeEscapes THEN <<"\\", "u">> \o UnicodeEscapes[c]
    ELSE <<c>>

RECURSIVE EscapeChars(_)
EscapeChars(s) ==
    IF Len(s) = 0 THEN <<>> ELSE EscapeChar(Head(s)) \o EscapeChars(Tail(s))

DumpString(s) == <<"\"">> \o EscapeChars(s) \o <<"\"">>

DumpValue(v) ==
    CASE v.kind = "str" -> DumpString(v.str)
      [] v.kind = "int" -> IntToStr(v.int)
      [] v.kind = "bool" -> IF v.int = 1 THEN <<"t", "r", "u", "e">>
                            ELSE <<"f", "a", "l", "s", "e">>
      [] OTHER -> <<"n", "u", "l", "l">>

\* separators=(",", ":"): no blanks between the items.
RECURSIVE DumpMembers(_)
DumpMembers(items) ==
    IF Len(items) = 0 THEN <<>>
    ELSE DumpString(items[1].key) \o <<":">> \o DumpValue(items[1].value)
            \o (IF Len(items) = 1 THEN <<>>
                ELSE <<",">> \o DumpMembers(Tail(items)))

json_dumps(value) == <<"{">> \o DumpMembers(value) \o <<"}">>

\* json.loads, on the documents the model writes: a parse step is
\* Some([val, next]) or None where the decoder raises.
At(s, i) == IF i \in 1..Len(s) THEN s[i] ELSE ""

RECURSIVE SkipWs(_, _)
SkipWs(s, i) == IF At(s, i) = " " THEN SkipWs(s, i + 1) ELSE i

UnescapeUnicode(hex) ==
    IF \E c \in DOMAIN UnicodeEscapes : UnicodeEscapes[c] = hex
    THEN Some(CHOOSE c \in DOMAIN UnicodeEscapes : UnicodeEscapes[c] = hex)
    ELSE None

\* The characters of a string literal, from the one after its opening quote.
RECURSIVE ScanString(_, _, _)
ScanString(s, i, acc) ==
    IF i > Len(s) THEN None
    ELSE IF s[i] = "\"" THEN Some([val |-> acc, next |-> i + 1])
    ELSE IF s[i] = "\\"
         THEN IF At(s, i + 1) \in {"\"", "\\"}
              THEN ScanString(s, i + 2, Append(acc, s[i + 1]))
              ELSE IF At(s, i + 1) = "u" /\ i + 5 <= Len(s)
                        /\ UnescapeUnicode(SubSeq(s, i + 2, i + 5)) # None
                   THEN ScanString(s, i + 6,
                            Append(acc, UnescapeUnicode(SubSeq(s, i + 2, i + 5))[1]))
                   ELSE None
         ELSE ScanString(s, i + 1, Append(acc, s[i]))

RECURSIVE DigitsEnd(_, _)
DigitsEnd(s, i) ==
    IF \E d \in 0..9 : Digits[d + 1] = At(s, i) THEN DigitsEnd(s, i + 1) ELSE i

ParseNumber(s, i) ==
    LET from == IF At(s, i) = "-" THEN i + 1 ELSE i
        to == DigitsEnd(s, from)
    IN  IF to = from \/ (to > from + 1 /\ s[from] = "0") THEN None
        ELSE Some([val |-> JInt(ParseInt(SubSeq(s, i, to - 1))[1]), next |-> to])

ParseLiteral(s, i, word, v) ==
    IF i + Len(word) - 1 <= Len(s) /\ SubSeq(s, i, i + Len(word) - 1) = word
    THEN Some([val |-> v, next |-> i + Len(word)])
    ELSE None

ParseValue(s, i) ==
    LET c == At(s, i)
    IN  IF c = "\""
        THEN LET r == ScanString(s, i + 1, <<>>)
             IN  IF r = None THEN None
                 ELSE Some([val |-> JStr(r[1].val), next |-> r[1].next])
        ELSE IF c = "t" THEN ParseLiteral(s, i, <<"t", "r", "u", "e">>, JBool(TRUE))
        ELSE IF c = "f"
             THEN ParseLiteral(s, i, <<"f", "a", "l", "s", "e">>, JBool(FALSE))
        ELSE IF c = "n" THEN ParseLiteral(s, i, <<"n", "u", "l", "l">>, JNull)
        ELSE ParseNumber(s, i)

\* d[key] = value on a dict: a key already present keeps its place.
DictSet(items, key, value) ==
    IF \E k \in 1..Len(items) : items[k].key = key
    THEN [k \in 1..Len(items) |->
             IF items[k].key = key THEN [key |-> key, value |-> value]
             ELSE items[k]]
    ELSE Append(items, [key |-> key, value |-> value])

\* The one element of a singleton set.
Only(S) == CHOOSE x \in S : TRUE

\* The members of an object, from the first key to the closing brace: the
\* key, then the colon and the value, then a comma or the closing brace.
RECURSIVE ParseMembers(_, _, _)
MemberAfterValue(s, acc, k, v) ==
    IF v = None THEN None
    ELSE LET after == SkipWs(s, v[1].next)
             items == DictSet(acc, k[1].val, v[1].val)
         IN  IF At(s, after) = "}"
             THEN Some([val |-> items, next |-> after + 1])
             ELSE IF At(s, after) = ","
             THEN ParseMembers(s, SkipWs(s, after + 1), items)
             ELSE None

MemberAfterKey(s, acc, k) ==
    IF k = None THEN None
    ELSE LET colon == SkipWs(s, k[1].next)
         IN  IF At(s, colon) # ":" THEN None
             ELSE Only({ MemberAfterValue(s, acc, k, v) :
                            v \in {ParseValue(s, SkipWs(s, colon + 1))} })

ParseMembers(s, i, acc) ==
    IF At(s, i) # "\"" THEN None
    ELSE Only({ MemberAfterKey(s, acc, k) : k \in {ScanString(s, i + 1, <<>>)} })

ParseObject(s, i) ==
    IF At(s, i) # "{" THEN None
    ELSE LET first == SkipWs(s, i + 1)
         IN  IF At(s, first) = "}" THEN Some([val |-> <<>>, next |-> first + 1])
             ELSE ParseMembers(s, first, <<>>)

\* isinstance(parsed, dict), json.loads having read the whole text.
LoadsResult(value, r) ==
    IF r # None /\ SkipWs(value, r[1].next) = Len(value) + 1
    THEN r[1].val ELSE <<>>

\* _json_loads: the dict parsed, or {} when the text is not a JSON object.
json_loads(value) ==
    Only({ LoadsResult(value, r) : r \in {ParseObject(value, SkipWs(value, 1))} })

EnqueueFields(payload, retry_count, source_message_id) ==
    [payload |-> json_dumps(payload),
     retry_count |-> IntToStr(Max(retry_count, 0)),
     source_message_id |-> source_message_id]

DeadLetterFields(original_stream, original_group, message_id, payload, error, retry_count) ==
    [payload |-> json_dumps(payload),
     error |-> error,
     retry_count |-> IntToStr(Max(retry_count, 0)),
     original_stream |-> original_stream,
     original_group |-> original_group,
     original_message_id |-> message_id]

\* parse_stream_message: (payload, retry_count, source_message_id)
parse_stream_message(fields) ==
    LET raw == IF "retry_count" \in DOMAIN fields /\ fields.retry_count # <<>>
               THEN fields.retry_count ELSE <<"0">>
        parsed == ParseInt(raw)
    IN  [payload |-> IF "payload" \in DOMAIN fields /\ fields.payload # <<>>
                     THEN json_loads(fields.payload)
                     ELSE json_loads(<<"{", "}">>),
         retry_count |-> IF parsed = None THEN 0 ELSE Max(parsed[1], 0),
         source_message_id |-> IF "source_message_id" \in DOMAIN fields
                               THEN fields.source_message_id ELSE 0]

\* A resolution that ignores the consumer's own max_retries.
ResolveMaxRetriesGlobal(definition) == Max(config.QUEUE_MAX_RETRIES, 0)

resolve_max_retries(definition) ==
    IF definition.max_retries = None
    THEN Max(config.QUEUE_MAX_RETRIES, 0)
    ELSE Max(definition.max_retries[1], 0)

resolve_dead_letter_stream(definition) ==
    IF definition.dead_letter_stream # None /\ definition.dead_letter_stream[1] # ""
    THEN definition.dead_letter_stream[1]
    ELSE definition.stream \o ":dead"

(***************************************************************************)
(* Monitor store writes (app/services/task_monitor_service.py).  Time      *)
(* stamps and durations are not modelled.                                  *)
(***************************************************************************)

EmptyConsumerMonitor ==
    [last_status |-> "", last_error |-> "", last_message_id |-> 0,
     worker_id |-> "", consume_count |-> 0, success_count |-> 0,
     failure_count |-> 0, retry_count |-> 0, dead_letter_count |-> 0]

ConsumerMonitor(consumer_key) ==
    IF consumer_key \in DOMAIN monitor THEN monitor[consumer_key]
    ELSE EmptyConsumerMonitor

\* The Redis writes of one mark_consumer_result call, in order.
MarkConsumerWrites(status, retried, dead_lettered) ==
    <<"hset", "consume_count">>
    \o (IF status = "success" THEN <<"success_count">> ELSE <<"failure_count">>)
    \o (IF retried THEN <<"retry_count">> ELSE <<>>)
    \o (IF dead_lettered THEN <<"dead_letter_count">> ELSE <<>>)

ApplyMonitorWrite(rec, op, a) ==
    CASE op = "hset" ->
            [rec EXCEPT !.last_status = a.status, !.last_error = a.error,
                        !.last_message_id = a.message_id,
                        !.worker_id = a.worker_id]
      [] op = "consume_count" -> [rec EXCEPT !.consume_count = @ + 1]
      [] op = "success_count" -> [rec EXCEPT !.success_count = @ + 1]
      [] op = "failure_count" -> [rec EXCEPT !.failure_count = @ + 1]
      [] op = "retry_count" -> [rec EXCEPT !.retry_count = @ + 1]
      [] op = "dead_letter_count" -> [rec EXCEPT !.dead_letter_count = @ + 1]

RECURSIVE ApplyMonitorWrites(_, _, _)
ApplyMonitorWrites(rec, ops, a) ==
    IF ops = <<>> THEN rec
    ELSE ApplyMonitorWrites(ApplyMonitorWrite(rec, Head(ops), a), Tail(ops), a)

\* mark_consumer_result: every way the call can end.  The store may become
\* unreachable before any of its writes: the writes before it are kept and
\* the call raises.
mark_consumer_result(consumer_key, a) ==
    LET ops == MarkConsumerWrites(a.status, a.retried, a.dead_lettered)
    IN  { [raised |-> n < Len(ops),
           monitor |-> [k \in DOMAIN monitor \cup {consumer_key} |->
                          IF k = consumer_key
                          THEN ApplyMonitorWrites(ConsumerMonitor(consumer_key),
                                                  SubSeq(ops, 1, n), a)
                          ELSE monitor[k]]] : n \in 0..Len(ops) }

heartbeat_key(worker_type, worker_id) == worker_type \o ":" \o worker_id

(***************************************************************************)
(* Queue worker (app/workers/queue_worker.py): one process per worker id,  *)
(* one step per awaited call.                                              *)
(***************************************************************************)

QueueWorkers == {"queue-0", "queue-1"}

\* _read_worker_identity: the consumer name is the worker id and the pid.
ConsumerName(w) == w \o ":pid"

definitions == list_queue_consumers

IdleLocals ==
    [message_id |-> 0, payload |-> <<>>, retry_count |-> 0, max_retries |-> 0,
     error_message |-> "", handler_returned |-> FALSE]

QwInitial ==
    [pc |-> "ensure", ci |-> 1, processed |-> FALSE, heartbeat_sent |-> FALSE,
     raised |-> "", monitor_write_raised |-> FALSE] @@ IdleLocals

QwLive(w) == qw[w].pc # "stopped"

\* An exception that leaves _run_queue_worker: the process ends.
QwStopped(r, exc) ==
    [QwInitial EXCEPT !.pc = "stopped", !.raised = exc,
                      !.monitor_write_raised = r.monitor_write_raised]

\* A sweep that starts over at the first consumer after each message.
QwAdvanceRestarts(r) ==
    LET cleared == [k \in DOMAIN r |-> IF k \in DOMAIN IdleLocals THEN IdleLocals[k] ELSE r[k]]
    IN  IF r.processed THEN [cleared EXCEPT !.pc = "top", !.ci = 1]
        ELSE IF r.ci < Len(definitions)
        THEN [cleared EXCEPT !.pc = "read", !.ci = @ + 1]
        ELSE [cleared EXCEPT !.pc = "sleep", !.ci = 1]

\* The for-loop over definitions moves on; after the last one the sweep ends
\* and the worker sleeps when no consumer yielded a message.
QwAdvance(r) ==
    LET cleared == [k \in DOMAIN r |-> IF k \in DOMAIN IdleLocals THEN IdleLocals[k] ELSE r[k]]
    IN  IF r.ci < Len(definitions)
        THEN [cleared EXCEPT !.pc = "read", !.ci = @ + 1]
        ELSE [cleared EXCEPT !.pc = IF r.processed THEN "top" ELSE "sleep", !.ci = 1]

\* for definition in definitions: await ensure_stream_group(stream, group)
QwEnsureGroup(w) ==
    /\ qw[w].pc = "ensure"
    /\ LET r == qw[w]
           d == definitions[r.ci]
           next == IF r.ci < Len(definitions)
                   THEN [r EXCEPT !.ci = @ + 1]
                   ELSE [r EXCEPT !.pc = "top", !.ci = 1]
       IN  \/ /\ ~XGroupCreateBusy(d.stream, d.group)
              /\ groups' = XGroupCreateGroups(d.stream, d.group)
              /\ streams' = XGroupCreateStreams(d.stream)
              /\ qw' = [qw EXCEPT ![w] = next]
           \/ /\ XGroupCreateBusy(d.stream, d.group)    \* BUSYGROUP is swallowed
              /\ qw' = [qw EXCEPT ![w] = next]
              /\ UNCHANGED <<groups, streams>>
           \/ /\ qw' = [qw EXCEPT ![w] = QwStopped(r, "RedisError")]
              /\ UNCHANGED <<groups, streams>>
    /\ UNCHANGED <<nonQueueVars, config, monitor, heartbeats, qhist>>

\* Top of the while loop: the heartbeat when it is due (always on the first
\* iteration, next_heartbeat being 0.0), then the sweep starts.
QwTop(w) ==
    /\ qw[w].pc = "top"
    /\ LET r == qw[w]
           sweep == IF Len(definitions) = 0
                    THEN [r EXCEPT !.pc = "sleep", !.processed = FALSE]
                    ELSE [r EXCEPT !.pc = "read", !.ci = 1, !.processed = FALSE]
       IN  \/ /\ heartbeats' = heartbeats \cup {heartbeat_key("queue", w)}
              /\ qw' = [qw EXCEPT ![w] = [sweep EXCEPT !.heartbeat_sent = TRUE]]
           \/ /\ qw' = [qw EXCEPT ![w] =
                          [QwStopped(r, "RedisError") EXCEPT !.monitor_write_raised = TRUE]]
              /\ UNCHANGED heartbeats
           \/ /\ r.heartbeat_sent                        \* not due yet
              /\ qw' = [qw EXCEPT ![w] = sweep]
              /\ UNCHANGED heartbeats
    /\ UNCHANGED <<nonQueueVars, config, streams, groups, monitor, qhist>>

\* read_group_messages(stream, group, consumer_name, count=1), then the
\* parse at the head of _handle_single_message.
QwRead(w) ==
    /\ qw[w].pc = "read"
    /\ LET r == qw[w]
           d == definitions[r.ci]
       IN  \/ /\ ~XReadGroupNoGroup(d.stream, d.group)
              /\ NewEntries(d.stream, d.group) = <<>>   \* block_ms elapsed
              /\ qw' = [qw EXCEPT ![w] = QwAdvance(r)]
              /\ UNCHANGED <<groups, qhist>>
           \/ /\ ~XReadGroupNoGroup(d.stream, d.group)
              /\ NewEntries(d.stream, d.group) # <<>>
              /\ LET e == Head(NewEntries(d.stream, d.group))
                     m == parse_stream_message(e.fields)
                 IN  /\ groups' = XReadGroupGroups(d.stream, d.group, ConsumerName(w), e)
                     /\ qw' = [qw EXCEPT ![w] =
                                 [r EXCEPT !.pc = "handler", !.processed = TRUE,
                                           !.message_id = e.id,
                                           !.payload = m.payload,
                                           !.retry_count = m.retry_count,
                                           !.max_retries = resolve_max_retries(d)]]
                     /\ qhist' = [qhist EXCEPT
                                    !.redelivered = @ \cup
                                        ({<<d.key, e.id>>} \cap qhist.delivered),
                                    !.delivered = @ \cup {<<d.key, e.id>>}]
           \/ /\ qw' = [qw EXCEPT ![w] = QwStopped(r, "RedisError")]
              /\ UNCHANGED <<groups, qhist>>
    /\ UNCHANGED <<nonQueueVars, config, streams, monitor, heartbeats>>

\* await definition.handler(payload, meta): it returns or it raises.
QwHandler(w) ==
    /\ qw[w].pc = "handler"
    /\ LET r == qw[w]
           d == definitions[r.ci]
           seen(outcome) == [key |-> d.key, message_id |-> r.message_id,
                             retry_count |-> r.retry_count, outcome |-> outcome]
       IN  \/ /\ qw' = [qw EXCEPT ![w] =
                          [r EXCEPT !.pc = "s_ack", !.handler_returned = TRUE]]
              /\ qhist' = [qhist EXCEPT !.handled = @ \cup {seen("return")}]
           \/ /\ qw' = [qw EXCEPT ![w] =
                          [r EXCEPT !.pc = "route", !.error_message = "handler-error"]]
              /\ qhist' = [qhist EXCEPT !.handled = @ \cup {seen("raise")}]
    /\ UNCHANGED <<nonQueueVars, config, redisVars>>

\* Success path, inside the try block: await ack_message(...).  An
\* exception of the call is caught by "except Exception".
QwAckSuccess(w) ==
    /\ qw[w].pc = "s_ack"
    /\ LET r == qw[w]
           d == definitions[r.ci]
       IN  \/ /\ groups' = XAck(d.stream, d.group, r.message_id)
              /\ qw' = [qw EXCEPT ![w] = [r EXCEPT !.pc = "s_mark"]]
           \/ /\ qw' = [qw EXCEPT ![w] =
                          [r EXCEPT !.pc = "route", !.error_message = "RedisError"]]
              /\ UNCHANGED groups
    /\ UNCHANGED <<nonQueueVars, config, streams, monitor, heartbeats, qhist>>

MarkArgs(w, status, retried, dead_lettered) ==
    [status |-> status, error |-> qw[w].error_message,
     message_id |-> qw[w].message_id, worker_id |-> w,
     retried |-> retried, dead_lettered |-> dead_lettered]

\* Success path, still inside the try block: await mark_consumer_result(
\* ..., status="success"), then return.  An exception of the call is caught
\* by "except Exception" and the message takes the failure path.
QwMarkSuccess(w) ==
    /\ qw[w].pc = "s_mark"
    /\ LET r == qw[w]
           d == definitions[r.ci]
       IN  \E o \in mark_consumer_result(d.key, MarkArgs(w, "success", FALSE, FALSE)) :
              /\ monitor' = o.monitor
              /\ \/ /\ ~o.raised
                    /\ qw' = [qw EXCEPT ![w] = QwAdvance(r)]
                    /\ qhist' = [qhist EXCEPT
                                   !.completed = @ \cup {<<d.key, r.message_id>>}]
                 \/ /\ o.raised
                    /\ qw' = [qw EXCEPT ![w] =
                                [r EXCEPT !.pc = "route",
                                          !.error_message = "RedisError",
                                          !.monitor_write_raised = TRUE]]
                    /\ UNCHANGED qhist
    /\ UNCHANGED <<nonQueueVars, config, streams, groups, heartbeats>>

\* A limit check off by one: next_retry >= max_retries.
DeadLetteredOffByOne(retry_count, max_retries) == retry_count + 1 >= max_retries

\* next_retry = retry_count + 1; dead_lettered = next_retry > max_retries
DeadLettered(retry_count, max_retries) == retry_count + 1 > max_retries

RouteAddKeepsCount(d, r) ==
    IF DeadLettered(r.retry_count, r.max_retries)
    THEN XAdd(resolve_dead_letter_stream(d),
              DeadLetterFields(d.stream, d.group, r.message_id, r.payload,
                               r.error_message, r.retry_count + 1),
              StreamMaxLen)
    ELSE XAdd(d.stream,
              EnqueueFields(r.payload, r.retry_count, r.message_id),
              StreamMaxLen)

\* The write of the failure path: dead-letter record or retry entry.
RouteAdd(d, r) ==
    IF DeadLettered(r.retry_count, r.max_retries)
    THEN XAdd(resolve_dead_letter_stream(d),
              DeadLetterFields(d.stream, d.group, r.message_id, r.payload,
                               r.error_message, r.retry_count + 1),
              StreamMaxLen)
    ELSE XAdd(d.stream,
              EnqueueFields(r.payload, r.retry_count + 1, r.message_id),
              StreamMaxLen)

\* A failure path that acknowledges the original before it writes the
\* retry entry or the dead-letter record.
QwRouteAckFirst(w) ==
    /\ qw[w].pc = "route"
    /\ LET r == qw[w]
           d == definitions[r.ci]
       IN  /\ groups' = XAck(d.stream, d.group, r.message_id)
           /\ \/ /\ \E s \in RouteAdd(d, r) : streams' = s
                 /\ qw' = [qw EXCEPT ![w] = [r EXCEPT !.pc = "f_ack"]]
                 /\ qhist' = [qhist EXCEPT !.routed = @ \cup {<<d.key, r.message_id>>}]
              \/ /\ qw' = [qw EXCEPT ![w] = QwStopped(r, "RedisError")]
                 /\ UNCHANGED <<streams, qhist>>
    /\ UNCHANGED <<nonQueueVars, config, monitor, heartbeats>>

\* Failure path: move_to_dead_letter(...) when next_retry > max_retries,
\* else enqueue_task(stream, payload, retry_count=next_retry,
\* source_message_id=message_id).
QwRoute(w) ==
    /\ qw[w].pc = "route"
    /\ LET r == qw[w]
           d == definitions[r.ci]
       IN  \/ /\ \E s \in RouteAdd(d, r) : streams' = s
              /\ qw' = [qw EXCEPT ![w] = [r EXCEPT !.pc = "f_ack"]]
              /\ qhist' = [qhist EXCEPT !.routed = @ \cup {<<d.key, r.message_id>>}]
           \/ /\ qw' = [qw EXCEPT ![w] = QwStopped(r, "RedisError")]
              /\ UNCHANGED <<streams, qhist>>
    /\ UNCHANGED <<nonQueueVars, config, groups, monitor, heartbeats>>

\* Failure path: await ack_message(...) after the write.
QwAckFailure(w) ==
    /\ qw[w].pc = "f_ack"
    /\ LET r == qw[w]
           d == definitions[r.ci]
       IN  \/ /\ groups' = XAck(d.stream, d.group, r.message_id)
              /\ qw' = [qw EXCEPT ![w] = [r EXCEPT !.pc = "f_mark"]]
           \/ /\ qw' = [qw EXCEPT ![w] = QwStopped(r, "RedisError")]
              /\ UNCHANGED groups
    /\ UNCHANGED <<nonQueueVars, config, streams, monitor, heartbeats, qhist>>

\* Failure path: await mark_consumer_result(..., status="failed",
\* retried=..., dead_lettered=...).
QwMarkFailure(w) ==
    /\ qw[w].pc = "f_mark"
    /\ LET r == qw[w]
           d == definitions[r.ci]
           dead_lettered == DeadLettered(r.retry_count, r.max_retries)
       IN  \E o \in mark_consumer_result(
                       d.key, MarkArgs(w, "failed", ~dead_lettered, dead_lettered)) :
              /\ monitor' = o.monitor
              /\ \/ /\ ~o.raised
                    /\ qw' = [qw EXCEPT ![w] = QwAdvance(r)]
                    /\ qhist' = [qhist EXCEPT
                                   !.completed = @ \cup {<<d.key, r.message_id>>}]
                 \/ /\ o.raised
                    /\ qw' = [qw EXCEPT ![w] =
                                [QwStopped(r, "RedisError") EXCEPT
                                    !.monitor_write_raised = TRUE]]
                    /\ UNCHANGED qhist
    /\ UNCHANGED <<nonQueueVars, config, streams, groups, heartbeats>>

\* if not processed: await asyncio.sleep(0.2)
QwSleep(w) ==
    /\ qw[w].pc = "sleep"
    /\ qw' = [qw EXCEPT ![w].pc = "top"]
    /\ UNCHANGED <<nonQueueVars, config, redisVars, qhist>>

\* A cancellation in the handler that "except Exception" would catch.
QwKillCaught(w) ==
    /\ QwLive(w)
    /\ qw' = [qw EXCEPT ![w] =
                IF qw[w].pc = "handler"
                THEN [qw[w] EXCEPT !.pc = "route", !.error_message = "CancelledError"]
                ELSE QwStopped(qw[w], "CancelledError")]
    /\ UNCHANGED <<nonQueueVars, config, redisVars, qhist>>

\* The process is killed, or cancelled at the await it is suspended in.
QwKill(w) ==
    /\ QwLive(w)
    /\ qw' = [qw EXCEPT ![w] = QwStopped(qw[w], "CancelledError")]
    /\ UNCHANGED <<nonQueueVars, config, redisVars, qhist>>

(***************************************************************************)
(* The queue fleet: producers enqueue originals, the workers consume.      *)
(***************************************************************************)

MaxOriginals == 1
MaxRetries == 2

\* {"event": "x"}
EventX == <<[key |-> <<"e", "v", "e", "n", "t">>, value |-> JStr(<<"x">>)]>>

Payloads == {EventX}

IsOriginal(e) ==
    /\ "source_message_id" \in DOMAIN e.fields
    /\ e.fields.source_message_id = 0

Originals(stream) ==
    {i \in 1..Len(StreamEntries(stream)) : IsOriginal(StreamEntries(stream)[i])}

\* A producer calls enqueue_task(stream, payload) with its defaults.
Enqueue ==
    /\ \E i \in 1..Len(queue_consumers), payload \in Payloads :
          /\ Cardinality(Originals(queue_consumers[i].stream)) < MaxOriginals
          /\ \E s \in XAdd(queue_consumers[i].stream,
                           EnqueueFields(payload, 0, 0), StreamMaxLen) :
                streams' = s
    /\ UNCHANGED <<nonQueueVars, config, groups, monitor, heartbeats, qw, qhist>>

DemoConsumer(max_retries, dead_letter_stream) ==
    [key |-> " a ", name |-> "demo consumer", stream |-> "s1", group |-> "g1",
     handler |-> "h1", tags |-> <<"system", "demo">>,
     max_retries |-> max_retries, dead_letter_stream |-> dead_letter_stream]

\* The deployments checked: <<QUEUE_MAX_RETRIES, the consumer's max_retries,
\* its dead_letter_stream>>.
QueueDeployments ==
    {<<MaxRetries, None, None>>, <<0, Some(1), Some(" dlq ")>>,
     <<MaxRetries, Some(-1), None>>}

RegistryIdle ==
    /\ periodic_tasks = <<>>
    /\ reg_call = [kind |-> "", key |-> ""]
    /\ reg_raised = ""

\* No supervisor: the workers are started by hand.
SupervisorIdle ==
    /\ sup = <<>>
    /\ children = <<>>
    /\ shist = <<>>

PeriodicIdle ==
    /\ pw = <<>>
    /\ pstore = <<>>
    /\ clock = 0

ShardIdle ==
    /\ shard_in = <<>>
    /\ shard_out = <<>>

\* No other process calls the services.
ClientIdle == client = <<>>

\* One consumer, registered before the workers start; the retry limits are
\* the deployment's choice.
QueueInit ==
    /\ ClientIdle
    /\ RegistryIdle
    /\ SupervisorIdle
    /\ PeriodicIdle
    /\ ShardIdle
    /\ \E c \in QueueDeployments :
          /\ queue_consumers =
                register_queue_consumer(<<>>, DemoConsumer(c[2], c[3])).catalog
          /\ config = [QUEUE_MAX_RETRIES |-> c[1]]
    /\ streams = <<>>
    /\ groups = <<>>
    /\ monitor = <<>>
    /\ heartbeats = {}
    /\ qw = [w \in QueueWorkers |-> QwInitial]
    /\ qhist = [delivered |-> {}, redelivered |-> {}, handled |-> {},
                routed |-> {}, completed |-> {}]

QueueNext ==
    \/ Enqueue
    \/ \E w \in QueueWorkers :
          \/ QwEnsureGroup(w)
          \/ QwTop(w)
          \/ QwRead(w)
          \/ QwHandler(w)
          \/ QwAckSuccess(w)
          \/ QwMarkSuccess(w)
          \/ QwRoute(w)
          \/ QwAckFailure(w)
          \/ QwMarkFailure(w)
          \/ QwSleep(w)
          \/ QwKill(w)

SpecQueue == QueueInit /\ [][QueueNext]_vars

(***************************************************************************)
(* What the queue run shows of a message.                                  *)
(***************************************************************************)

SeqRange(q) == {q[i] : i \in 1..Len(q)}

RetryCountOf(e) == parse_stream_message(e.fields).retry_count

\* The entries of the consumer's stream that name id as their source.
RetriesOf(d, id) ==
    {e \in SeqRange(StreamEntries(d.stream)) :
        "source_message_id" \in DOMAIN e.fields /\ e.fields.source_message_id = id}

\* The dead-letter records written for message id of the consumer.
DeadLettersOf(d, id) ==
    {e \in SeqRange(StreamEntries(resolve_dead_letter_stream(d))) :
        /\ "original_message_id" \in DOMAIN e.fields
        /\ e.fields.original_message_id = id
        /\ e.fields.original_stream = d.stream
        /\ e.fields.original_group = d.group}

HandlerOutcomes(d, id) ==
    {h.outcome : h \in {x \in qhist.handled : x.key = d.key /\ x.message_id = id}}

\* The limit the claim names: the consumer's override if set, else the
\* global default, clamped to >= 0.
EffectiveMaxRetries(d) ==
    IF d.max_retries # None THEN Max(d.max_retries[1], 0)
    ELSE Max(config.QUEUE_MAX_RETRIES, 0)

C2_NoSilentDrop ==
    \A i \in 1..Len(definitions) :
       LET d == definitions[i]
       IN  \A e \in SeqRange(StreamEntries(d.stream)) :
              <<d.key, e.id>> \in qhist.delivered
                 => \/ e.id \in Pending(d.stream, d.group)
                    \/ "return" \in HandlerOutcomes(d, e.id)
                    \/ RetriesOf(d, e.id) # {}
                    \/ DeadLettersOf(d, e.id) # {}

\* C2 witness: a message whose handler raised has been acknowledged after
\* its routing, and a worker has stopped on a backend error or a kill.
C2_Witness ==
    \E i \in 1..Len(definitions) :
       LET d == definitions[i]
       IN  \E e \in SeqRange(StreamEntries(d.stream)) :
              /\ <<d.key, e.id>> \in qhist.delivered
              /\ HandlerOutcomes(d, e.id) = {"raise"}
              /\ e.id \notin Pending(d.stream, d.group)
              /\ \E w \in QueueWorkers : qw[w].pc = "stopped"

\* C3: once the handler of a message has returned and the worker's ack has
\* been made, the message is not pending for the group, and no group read,
\* by any consumer, returns a message delivered before.
C3_AckedNotRedelivered ==
    /\ qhist.redelivered = {}
    /\ \A i \in 1..Len(definitions) :
          LET d == definitions[i]
          IN  /\ \A w \in QueueWorkers :
                    (qw[w].pc = "s_mark" /\ qw[w].ci = i)
                       => qw[w].message_id \notin Pending(d.stream, d.group)
              /\ \A e \in SeqRange(StreamEntries(d.stream)) :
                    (<<d.key, e.id>> \in qhist.completed
                        /\ "return" \in HandlerOutcomes(d, e.id))
                       => e.id \notin Pending(d.stream, d.group)

\* C3 witness: a worker recorded the success of a message, went on to a
\* further sweep whose group read returned nothing, and sleeps.
C3_Witness ==
    \E i \in 1..Len(definitions), w \in QueueWorkers :
       LET d == definitions[i]
           m == ConsumerMonitor(d.key)
       IN  /\ m.last_status = "success"
           /\ m.worker_id = w
           /\ <<d.key, m.last_message_id>> \in qhist.completed
           /\ HandlerOutcomes(d, m.last_message_id) = {"return"}
           /\ m.last_message_id \notin Pending(d.stream, d.group)
           /\ qw[w].pc = "sleep"

\* C10 (queue worker): a monitor-store write that raised stops the worker
\* with that error.
C10_MonitorWritesFailHard ==
    \A w \in QueueWorkers :
       qw[w].monitor_write_raised
          => qw[w].pc = "stopped" /\ qw[w].raised = "RedisError"

(***************************************************************************)
(* Process supervisor (app/services/process_supervisor.py).                *)
(***************************************************************************)

\* "".join(chars)
RECURSIVE Join(_)
Join(chars) == IF chars = <<>> THEN "" ELSE Head(chars) \o Join(Tail(chars))

WorkerSpawnsFromOne(prefix, count) ==
    [n \in 1..count |->
        LET index == n
            worker_id == prefix \o Join(IntToStr(index))
        IN  [name |-> worker_id,
             env_overrides |->
                 Some([PFA_WORKER_ID |-> worker_id,
                       PFA_WORKER_INDEX |-> IntToStr(index),
                       PFA_WORKER_TOTAL |-> IntToStr(Max(count, 1))])]]

WorkerSpawnsWithoutTotal(prefix, count) ==
    [n \in 1..count |->
        LET index == n - 1
            worker_id == prefix \o Join(IntToStr(index))
        IN  [name |-> worker_id,
             env_overrides |->
                 Some([PFA_WORKER_ID |-> worker_id,
                       PFA_WORKER_INDEX |-> IntToStr(index)])]]

\* One loop of start(): the name and the env overrides of each spawn.
WorkerSpawns(prefix, count) ==
    [n \in 1..count |->
        LET index == n - 1
            worker_id == prefix \o Join(IntToStr(index))
        IN  [name |-> worker_id,
             env_overrides |->
                 Some([PFA_WORKER_ID |-> worker_id,
                       PFA_WORKER_INDEX |-> IntToStr(index),
                       PFA_WORKER_TOTAL |-> IntToStr(Max(count, 1))])]]

\* The spawns of start(), in order.
start(cfg) ==
    <<[name |-> "http", env_overrides |-> None]>>
        \o WorkerSpawns("queue-", cfg.queue_workers)
        \o WorkerSpawns("periodic-", cfg.periodic_workers)

\* A child process just spawned: Popen.poll() is its returncode.
ManagedProcess(spawn) ==
    [name |-> spawn.name, env_overrides |-> spawn.env_overrides,
     returncode |-> None, terminate_sent |-> FALSE, kill_sent |-> FALSE]

poll(item) == item.returncode

\* The grace period of _terminate_all, in sleeps of 0.2 s: 10 s.
GraceSleeps == 50

\* The exit statuses a child can end with: its own, or the signal's.
ChildExitCodes(item) ==
    {0, 1} \cup (IF item.terminate_sent THEN {-15} ELSE {})
           \cup (IF item.kill_sent THEN {-9} ELSE {})

\* The configurations the supervisor is run with.
SupervisorConfigs ==
    {[queue_workers |-> 0, periodic_workers |-> 0],
     [queue_workers |-> 2, periodic_workers |-> 1]}

SupInitial(cfg) ==
    [pc |-> "register", config |-> cfg, shutdown_requested |-> FALSE,
     unexpected_exit |-> None, i |-> 1, return_code |-> None,
     waited |-> 0, exit_code |-> None]

\* for item in self._processes: the next item, or the loop is over.
SupNextItem(after) ==
    IF sup.i < Len(children) THEN [sup EXCEPT !.i = sup.i + 1]
    ELSE [sup EXCEPT !.pc = after, !.i = 1]

\* The value run() returns.
RunReturnsChildCode(s) ==
    IF s.unexpected_exit # None THEN s.unexpected_exit[1][2] ELSE 0

RunReturn(s) == IF s.unexpected_exit # None THEN 1 ELSE 0

SupReturned ==
    [sup EXCEPT !.pc = "returned", !.i = 1, !.exit_code = Some(RunReturn(sup))]

\* run(): self._register_signal_handlers()
SupRegisterSignalHandlers ==
    /\ sup.pc = "register"
    /\ sup' = [sup EXCEPT !.pc = "start", !.i = 1]
    /\ UNCHANGED <<children, shist>>
    /\ UNCHANGED <<regVars, queueVars, periodicVars, shardVars, clientVars>>

\* start(): one _spawn, in the order of start().
SupSpawn ==
    /\ sup.pc = "start"
    /\ LET spawns == start(sup.config)
       IN  /\ children' = Append(children, ManagedProcess(spawns[sup.i]))
           /\ sup' = IF sup.i < Len(spawns) THEN [sup EXCEPT !.i = sup.i + 1]
                     ELSE [sup EXCEPT !.pc = "loop", !.i = 1]
    /\ UNCHANGED shist
    /\ UNCHANGED <<regVars, queueVars, periodicVars, shardVars, clientVars>>

\* run(): while not self._shutdown_requested ... finally _terminate_all()
SupLoop ==
    /\ sup.pc = "loop"
    /\ sup' = IF sup.shutdown_requested
              THEN [sup EXCEPT !.pc = "terminate", !.i = 1]
              ELSE [sup EXCEPT !.pc = "poll", !.i = 1]
    /\ UNCHANGED <<children, shist>>
    /\ UNCHANGED <<regVars, queueVars, periodicVars, shardVars, clientVars>>

\* _poll_children(): poll one item and test the two conditions.
SupPollSkipsShutdownCheck ==
    /\ sup.pc = "poll"
    /\ LET return_code == poll(children[sup.i])
       IN  IF return_code = None
           THEN /\ sup' = SupNextItem("sleep")
                /\ UNCHANGED shist
           ELSE /\ sup' = [sup EXCEPT !.pc = "record", !.return_code = return_code]
                /\ shist' = [shist EXCEPT !.trigger =
                                IF @ = "" THEN "child_exit" ELSE @]
    /\ UNCHANGED children
    /\ UNCHANGED <<regVars, queueVars, periodicVars, shardVars, clientVars>>

SupPoll ==
    /\ sup.pc = "poll"
    /\ LET return_code == poll(children[sup.i])
       IN  IF return_code = None \/ sup.shutdown_requested
           THEN /\ sup' = SupNextItem("sleep")
                /\ UNCHANGED shist
           ELSE /\ sup' = [sup EXCEPT !.pc = "record", !.return_code = return_code]
                /\ shist' = [shist EXCEPT !.trigger =
                                IF @ = "" THEN "child_exit" ELSE @]
    /\ UNCHANGED children
    /\ UNCHANGED <<regVars, queueVars, periodicVars, shardVars, clientVars>>

\* _poll_children(): the two assignments and the return; then sleep(0.5).
SupRecord ==
    /\ sup.pc = "record"
    /\ sup' = [sup EXCEPT
                  !.unexpected_exit = Some(<<children[sup.i].name, sup.return_code[1]>>),
                  !.shutdown_requested = TRUE,
                  !.return_code = None,
                  !.pc = "sleep", !.i = 1]
    /\ UNCHANGED <<children, shist>>
    /\ UNCHANGED <<regVars, queueVars, periodicVars, shardVars, clientVars>>

SupSleep ==
    /\ sup.pc = "sleep"
    /\ sup' = [sup EXCEPT !.pc = "loop"]
    /\ UNCHANGED <<children, shist>>
    /\ UNCHANGED <<regVars, queueVars, periodicVars, shardVars, clientVars>>

\* _terminate_all(): the first loop, one item.
SupTerminate ==
    /\ sup.pc = "terminate"
    /\ children' = IF poll(children[sup.i]) = None
                   THEN [children EXCEPT ![sup.i].terminate_sent = TRUE]
                   ELSE children
    /\ sup' = [SupNextItem("wait") EXCEPT !.waited = 0]
    /\ UNCHANGED shist
    /\ UNCHANGED <<regVars, queueVars, periodicVars, shardVars, clientVars>>

\* _terminate_all(): one turn of the while loop.
SupWaitNoDeadline ==
    /\ sup.pc = "wait"
    /\ sup' = IF \A n \in 1..Len(children) : poll(children[n]) # None
              THEN SupReturned
              ELSE [sup EXCEPT !.waited = IF @ < GraceSleeps THEN @ + 1 ELSE @]
    /\ UNCHANGED <<children, shist>>
    /\ UNCHANGED <<regVars, queueVars, periodicVars, shardVars, clientVars>>

SupWait ==
    /\ sup.pc = "wait"
    /\ sup' = IF sup.waited >= GraceSleeps
              THEN [sup EXCEPT !.pc = "kill", !.i = 1]
              ELSE IF \A n \in 1..Len(children) : poll(children[n]) # None
                   THEN SupReturned
                   ELSE [sup EXCEPT !.waited = @ + 1]
    /\ UNCHANGED <<children, shist>>
    /\ UNCHANGED <<regVars, queueVars, periodicVars, shardVars, clientVars>>

\* _terminate_all(): the last loop, one item; then run() returns.
SupKill ==
    /\ sup.pc = "kill"
    /\ children' = IF poll(children[sup.i]) = None
                   THEN [children EXCEPT ![sup.i].kill_sent = TRUE]
                   ELSE children
    /\ sup' = IF sup.i < Len(children) THEN [sup EXCEPT !.i = sup.i + 1]
              ELSE SupReturned
    /\ UNCHANGED shist
    /\ UNCHANGED <<regVars, queueVars, periodicVars, shardVars, clientVars>>

\* SIGINT or SIGTERM reaches the supervisor: _handle_signal runs.
SupSignal ==
    /\ sup.pc \notin {"register", "returned"}
    /\ sup' = [sup EXCEPT !.shutdown_requested = TRUE]
    /\ shist' = [shist EXCEPT
                    !.trigger = IF @ = "" /\ ~sup.shutdown_requested
                                THEN "signal" ELSE @,
                    !.signalled = TRUE]
    /\ UNCHANGED children
    /\ UNCHANGED <<regVars, queueVars, periodicVars, shardVars, clientVars>>

\* A child process ends, by itself or by a signal it was sent.
ChildExit ==
    /\ sup.pc # "returned"
    /\ \E n \in 1..Len(children) :
          /\ poll(children[n]) = None
          /\ \E code \in ChildExitCodes(children[n]) :
                children' = [children EXCEPT ![n].returncode = Some(code)]
    /\ UNCHANGED <<sup, shist>>
    /\ UNCHANGED <<regVars, queueVars, periodicVars, shardVars, clientVars>>

QueueIdle ==
    /\ queue_consumers = <<>>
    /\ config = <<>>
    /\ streams = <<>>
    /\ groups = <<>>
    /\ monitor = <<>>
    /\ heartbeats = {}
    /\ qw = <<>>
    /\ qhist = <<>>

SupervisorInit ==
    /\ ClientIdle
    /\ RegistryIdle
    /\ QueueIdle
    /\ PeriodicIdle
    /\ ShardIdle
    /\ \E cfg \in SupervisorConfigs : sup = SupInitial(cfg)
    /\ children = <<>>
    /\ shist = [trigger |-> "", signalled |-> FALSE]

SupervisorStep ==
    \/ SupRegisterSignalHandlers
    \/ SupSpawn
    \/ SupLoop
    \/ SupPoll
    \/ SupRecord
    \/ SupSleep
    \/ SupTerminate
    \/ SupWait
    \/ SupKill

SupervisorNext ==
    \/ SupervisorStep
    \/ SupSignal
    \/ ChildExit

\* The supervisor is a running program: its next statement is executed.
SpecSupervisor ==
    SupervisorInit /\ [][SupervisorNext]_vars /\ WF_vars(SupervisorStep)

(***************************************************************************)
(* Claims on the supervisor.                                               *)
(***************************************************************************)

\* A step of _poll_children that has polled one item.
PolledOne == sup.pc = "poll" /\ (sup'.pc # "poll" \/ sup'.i # sup.i)

\* C4: fail-fast.  A poll that finds a child exited while no shutdown is
\* requested goes on to set shutdown_requested and to record that child's
\* (name, exit code), whatever the code; the recorded pair is written only
\* there, is never overwritten once set, and a poll made after shutdown was
\* requested records nothing.
C4_FailFastRecordsFirstExit ==
    [][/\ (PolledOne /\ poll(children[sup.i]) # None /\ ~sup.shutdown_requested)
            => (sup'.pc = "record" /\ sup'.return_code = poll(children[sup.i]))
       /\ (sup.pc = "record" /\ sup'.pc # "record")
            => /\ sup'.shutdown_requested
               /\ sup'.unexpected_exit =
                     Some(<<children[sup.i].name, poll(children[sup.i])[1]>>)
       /\ (PolledOne /\ sup.shutdown_requested)
            => (sup'.pc # "record" /\ sup'.unexpected_exit = sup.unexpected_exit)
       /\ (sup.unexpected_exit # None)
            => sup'.unexpected_exit = sup.unexpected_exit
       /\ (sup'.unexpected_exit # sup.unexpected_exit) => sup.pc = "record"
      ]_vars

\* An exit with code 0 was recorded, then a signal came and another child
\* ended: the record still names the first one.
C4_Witness ==
    /\ sup.pc = "returned"
    /\ sup.unexpected_exit = Some(<<"queue-0", 0>>)
    /\ shist.signalled
    /\ \E n \in 1..Len(children) :
          /\ children[n].name # "queue-0"
          /\ poll(children[n]) = Some(1)

\* C5: run() returns 1 exactly when the shutdown was decided by a poll that
\* found a child exited, and 0 when it was decided by a termination signal.
C5_ExitCodeIffFailFast ==
    sup.pc = "returned" =>
        /\ sup.exit_code \in {Some(0), Some(1)}
        /\ sup.exit_code = Some(1) <=> shist.trigger = "child_exit"
        /\ shist.trigger = "signal" => sup.exit_code = Some(0)

\* A child ended with code 0 and was found by the poll; a signal came too.
C5_Witness ==
    /\ sup.pc = "returned"
    /\ sup.exit_code = Some(1)
    /\ shist.trigger = "child_exit"
    /\ shist.signalled
    /\ sup.unexpected_exit[1][2] = 0

C6_State ==
    /\ \A n \in 1..Len(children) :
          children[n].kill_sent => children[n].terminate_sent
    /\ sup.pc \in {"wait", "kill", "returned"} =>
          \A n \in 1..Len(children) :
              children[n].terminate_sent \/ poll(children[n]) # None
    /\ sup.waited <= GraceSleeps
    /\ sup.pc = "kill" => sup.waited = GraceSleeps
    /\ sup.pc = "returned" =>
          /\ Len(children) = Len(start(sup.config))
          /\ \A n \in 1..Len(children) :
                children[n].kill_sent \/ poll(children[n]) # None

C6_Step ==
    \A n \in 1..Len(children) :
        /\ (children'[n].terminate_sent /\ ~children[n].terminate_sent)
              => (sup.pc = "terminate" /\ sup.shutdown_requested
                    /\ poll(children[n]) = None)
        /\ (children'[n].kill_sent /\ ~children[n].kill_sent)
              => (sup.pc = "kill" /\ poll(children[n]) = None)

\* C6: after a shutdown request every child still alive is sent terminate,
\* the wait lasts at most the grace period, kill goes only to children still
\* alive after it (all of them sent terminate before), every child has ended
\* or was sent kill when run() returns, and run() does return.
C6_ShutdownTerminates ==
    /\ []C6_State
    /\ [][C6_Step]_vars
    /\ (sup.shutdown_requested ~> sup.pc = "returned")

\* run() returned after the grace period: one child was killed, another
\* ended on terminate.
C6_Witness ==
    /\ sup.pc = "returned"
    /\ \E n \in 1..Len(children) :
          children[n].kill_sent /\ poll(children[n]) = None
    /\ \E n \in 1..Len(children) :
          children[n].terminate_sent /\ poll(children[n]) = Some(-15)

(***************************************************************************)
(* Periodic scheduler (app/services/periodic_service.py).                  *)
(***************************************************************************)

RECURSIVE AssignFromOverlapping(_, _, _, _, _)
AssignFromOverlapping(tasks, index, worker_index, worker_total, selected) ==
    IF index >= Len(tasks) THEN selected
    ELSE AssignFromOverlapping(tasks, index + 1, worker_index, worker_total,
                    IF index % worker_total <= worker_index
                    THEN Append(selected, tasks[index + 1])
                    ELSE selected)

\* for index, definition in enumerate(tasks): ... selected.append(definition)
RECURSIVE AssignFrom(_, _, _, _, _)
AssignFrom(tasks, index, worker_index, worker_total, selected) ==
    IF index >= Len(tasks) THEN selected
    ELSE AssignFrom(tasks, index + 1, worker_index, worker_total,
                    IF index % worker_total = worker_index
                    THEN Append(selected, tasks[index + 1])
                    ELSE selected)

_assign_tasks(tasks, worker_index, worker_total) ==
    IF worker_total <= 1 THEN tasks
    ELSE AssignFrom(tasks, 0, worker_index, worker_total, <<>>)

\* int(os.getenv(name, default)) with the ValueError fallback.
EnvInt(env, name, default) ==
    LET text == IF env # None /\ name \in DOMAIN env[1] THEN env[1][name]
                ELSE IntToStr(default)
        value == ParseInt(text)
    IN  IF value = None THEN default ELSE value[1]

\* env is the environment of the process: None when nothing was overridden.
read_worker_identity_from_env(env) ==
    [worker_id |-> IF env # None /\ "PFA_WORKER_ID" \in DOMAIN env[1]
                   THEN env[1].PFA_WORKER_ID ELSE "periodic-0",
     worker_index |-> Max(EnvInt(env, "PFA_WORKER_INDEX", 0), 0),
     worker_total |-> Max(EnvInt(env, "PFA_WORKER_TOTAL", 1), 1)]

(***************************************************************************)
(* The registered periodic tasks of a run: the first n of a fixed order.   *)
(***************************************************************************)

PeriodicDemo(n) ==
    [key |-> "task-" \o Join(IntToStr(n)), name |-> "demo task",
     interval_seconds |-> 1 + (n % 2), runner |-> "runner-" \o Join(IntToStr(n)),
     tags |-> <<"system">>]

RECURSIVE RegisterDemoTasks(_)
RegisterDemoTasks(n) ==
    IF n = 0 THEN <<>>
    ELSE register_periodic_task(RegisterDemoTasks(n - 1), PeriodicDemo(n)).catalog

(***************************************************************************)
(* _assign_tasks over every worker_index of a fleet: the tasks are the     *)
(* registry's list, the calls are made in any order.                       *)
(***************************************************************************)

MaxTasks == 5
MaxWorkerTotal == 4

ShardWorkers(worker_total) == 0..(Max(worker_total, 1) - 1)

ShardInit ==
    /\ ClientIdle
    /\ \E n \in 0..MaxTasks : periodic_tasks = RegisterDemoTasks(n)
    /\ queue_consumers = <<>>
    /\ reg_call = [kind |-> "", key |-> ""]
    /\ reg_raised = ""
    /\ config = <<>>
    /\ streams = <<>>
    /\ groups = <<>>
    /\ monitor = <<>>
    /\ heartbeats = {}
    /\ qw = <<>>
    /\ qhist = <<>>
    /\ SupervisorIdle
    /\ PeriodicIdle
    /\ \E worker_total \in 0..MaxWorkerTotal :
          /\ shard_in = [worker_total |-> worker_total]
          /\ shard_out = [w \in ShardWorkers(worker_total) |-> None]

\* _assign_tasks(list_periodic_tasks(), worker_index=w, worker_total=...)
AssignShard ==
    /\ \E w \in DOMAIN shard_out :
          /\ shard_out[w] = None
          /\ shard_out' = [shard_out EXCEPT ![w] =
                Some(_assign_tasks(list_periodic_tasks, w, shard_in.worker_total))]
    /\ UNCHANGED <<shard_in, regVars, queueVars, supVars, periodicVars, clientVars>>

ShardNext == AssignShard

SpecShard == ShardInit /\ [][ShardNext]_vars

\* The positions of tasks, counted from 0, whose definition is in shard.
PositionsIn(tasks, shard) ==
    {i \in 0..(Len(tasks) - 1) : \E j \in 1..Len(shard) : shard[j] = tasks[i + 1]}

\* C7: shard assignment is a partition.  The shard of worker_index w holds
\* exactly the tasks at the positions i with i mod worker_total = w, in
\* registration order; once every worker_index of [0, worker_total) has its
\* shard, each task is in exactly one shard; with worker_total <= 1 the
\* single worker has the whole list.
C7_ShardsPartition ==
    LET T == list_periodic_tasks
        total == Max(shard_in.worker_total, 1)
        done == {w \in DOMAIN shard_out : shard_out[w] # None}
    IN  /\ \A w \in done :
              LET shard == shard_out[w][1]
              IN  /\ PositionsIn(T, shard) = {i \in 0..(Len(T) - 1) : i % total = w}
                  /\ Len(shard) = Cardinality(PositionsIn(T, shard))
                  /\ \A j \in 1..Len(shard) : shard[j] = T[w + (j - 1) * total + 1]
        /\ \A w1, w2 \in done :
              w1 # w2 => PositionsIn(T, shard_out[w1][1])
                           \cap PositionsIn(T, shard_out[w2][1]) = {}
        /\ done = DOMAIN shard_out =>
              \A i \in 0..(Len(T) - 1) :
                  Cardinality({w \in done : i \in PositionsIn(T, shard_out[w][1])}) = 1
        /\ (shard_in.worker_total <= 1 /\ 0 \in done) => shard_out[0] = Some(T)

\* Three workers and five tasks, every shard computed: none is empty and
\* none is the whole list.
C7_Witness ==
    /\ shard_in.worker_total = 3
    /\ Len(list_periodic_tasks) = 5
    /\ \A w \in DOMAIN shard_out :
          /\ shard_out[w] # None
          /\ Len(shard_out[w][1]) \in 1..4

(***************************************************************************)
(* Periodic monitor hashes (app/services/task_monitor_service.py).  The    *)
(* timestamps and the duration of a hash are left out.                     *)
(***************************************************************************)

EmptyPeriodicMonitor ==
    [key |-> "", name |-> "", last_status |-> "", last_error |-> "",
     worker_id |-> "", next_run_at |-> None, last_started_at |-> None,
     run_count |-> 0, success_count |-> 0, failure_count |-> 0]

PeriodicMonitor(task_key) ==
    IF task_key \in DOMAIN pstore THEN pstore[task_key] ELSE EmptyPeriodicMonitor

PeriodicStoreWith(task_key, rec) ==
    [k \in DOMAIN pstore \cup {task_key} |-> IF k = task_key THEN rec ELSE pstore[k]]

\* mark_periodic_started: the call raises when the store is unreachable,
\* else its one hset is made.
mark_periodic_started(task_key, task_name, worker_id) ==
    { [raised |-> TRUE, pstore |-> pstore],
      [raised |-> FALSE,
       pstore |-> PeriodicStoreWith(task_key,
                     [PeriodicMonitor(task_key) EXCEPT
                         !.key = task_key, !.name = task_name,
                         !.last_status = "running", !.last_error = "",
                         !.last_started_at = Some(clock),
                         !.worker_id = worker_id])] }

\* A finish that leaves run_count alone.
ApplyPeriodicWriteNoRunCount(rec, op, a) ==
    CASE op = "hset" ->
            [rec EXCEPT !.key = a.task_key, !.name = a.task_name,
                        !.last_status = a.status, !.last_error = a.error,
                        !.next_run_at = Some(a.next_run_at),
                        !.worker_id = a.worker_id]
      [] op = "run_count" -> rec
      [] op = "success_count" -> [rec EXCEPT !.success_count = @ + 1]
      [] op = "failure_count" -> [rec EXCEPT !.failure_count = @ + 1]

\* The writes of mark_periodic_finished, in order.
ApplyPeriodicWrite(rec, op, a) ==
    CASE op = "hset" ->
            [rec EXCEPT !.key = a.task_key, !.name = a.task_name,
                        !.last_status = a.status, !.last_error = a.error,
                        !.next_run_at = Some(a.next_run_at),
                        !.worker_id = a.worker_id]
      [] op = "run_count" -> [rec EXCEPT !.run_count = @ + 1]
      [] op = "success_count" -> [rec EXCEPT !.success_count = @ + 1]
      [] op = "failure_count" -> [rec EXCEPT !.failure_count = @ + 1]

RECURSIVE ApplyPeriodicWrites(_, _, _)
ApplyPeriodicWrites(rec, ops, a) ==
    IF ops = <<>> THEN rec
    ELSE ApplyPeriodicWrites(ApplyPeriodicWrite(rec, Head(ops), a), Tail(ops), a)

\* mark_periodic_finished: every way the call can end; the writes made
\* before the store became unreachable are kept.
mark_periodic_finished(a) ==
    LET ops == <<"hset", "run_count",
                 IF a.status = "success" THEN "success_count" ELSE "failure_count">>
    IN  { [raised |-> n < Len(ops),
           pstore |-> PeriodicStoreWith(a.task_key,
                         ApplyPeriodicWrites(PeriodicMonitor(a.task_key),
                                             SubSeq(ops, 1, n), a))] : n \in 0..Len(ops) }

(***************************************************************************)
(* Periodic worker (app/workers/periodic_worker.py, run_periodic_worker):  *)
(* one process per spawn of the supervisor, one step per awaited call.     *)
(***************************************************************************)

\* next_heartbeat = now_ts + 10
HeartbeatEvery == 10

PwInitial(spawn) ==
    [pc |-> "main", env |-> spawn.env_overrides, worker_id |-> "",
     worker_index |-> 0, worker_total |-> 1, tasks |-> <<>>, ti |-> 1,
     now |-> 0, next_run_at |-> <<>>, next_heartbeat |-> 0,
     status |-> "", error_message |-> "", raised |-> ""]

\* An exception that leaves run_periodic_worker: the process ends.
PwStopped(r, exc) == [r EXCEPT !.pc = "stopped", !.raised = exc, !.ti = 1,
                               !.status = "", !.error_message = ""]

\* for definition in tasks: the next one, or asyncio.sleep(0.5).
PwAdvance(r) ==
    IF r.ti < Len(r.tasks) THEN [r EXCEPT !.pc = "scan", !.ti = @ + 1]
    ELSE [r EXCEPT !.pc = "sleep", !.ti = 1]

\* _main(): the identity is read and the shard and its schedule are built.
PwMain(w) ==
    /\ pw[w].pc = "main"
    /\ LET id == read_worker_identity_from_env(pw[w].env)
           tasks == _assign_tasks(list_periodic_tasks,
                                  Max(id.worker_index, 0), Max(id.worker_total, 1))
       IN  pw' = [pw EXCEPT ![w] =
                     [@ EXCEPT !.pc = "top", !.worker_id = id.worker_id,
                               !.worker_index = id.worker_index,
                               !.worker_total = id.worker_total,
                               !.tasks = tasks,
                               !.next_run_at = [j \in 1..Len(tasks) |-> clock],
                               !.next_heartbeat = 0]]
    /\ UNCHANGED <<pstore, clock, heartbeats>>
    /\ UNCHANGED <<regVars, config, streams, groups, monitor, qw, qhist, supVars, shardVars, clientVars>>

\* Top of the while loop: the heartbeat when it is due, then now = _now().
PwTop(w) ==
    /\ pw[w].pc = "top"
    /\ LET r == pw[w]
           sweep == [r EXCEPT !.now = clock, !.ti = 1,
                              !.pc = IF Len(r.tasks) = 0 THEN "sleep" ELSE "scan"]
       IN  \/ /\ clock >= r.next_heartbeat
              /\ heartbeats' = heartbeats \cup {heartbeat_key("periodic", r.worker_id)}
              /\ pw' = [pw EXCEPT ![w] =
                           [sweep EXCEPT !.next_heartbeat = clock + HeartbeatEvery]]
           \/ /\ clock >= r.next_heartbeat             \* set_worker_heartbeat raises
              /\ pw' = [pw EXCEPT ![w] = PwStopped(r, "ConnectionError")]
              /\ UNCHANGED heartbeats
           \/ /\ clock < r.next_heartbeat
              /\ pw' = [pw EXCEPT ![w] = sweep]
              /\ UNCHANGED heartbeats
    /\ UNCHANGED <<pstore, clock>>
    /\ UNCHANGED <<regVars, config, streams, groups, monitor, qw, qhist, supVars, shardVars, clientVars>>

\* One definition of the for loop: skipped when not due, else
\* mark_periodic_started is awaited.
PwScan(w) ==
    /\ pw[w].pc = "scan"
    /\ LET r == pw[w]
           definition == r.tasks[r.ti]
           schedule_at == r.next_run_at[r.ti]
       IN  IF r.now < schedule_at
           THEN /\ pw' = [pw EXCEPT ![w] = PwAdvance(r)]
                /\ UNCHANGED pstore
           ELSE \E out \in mark_periodic_started(definition.key, definition.name,
                                                 r.worker_id) :
                   /\ pstore' = out.pstore
                   /\ pw' = [pw EXCEPT ![w] =
                                IF out.raised THEN PwStopped(r, "ConnectionError")
                                ELSE [r EXCEPT !.pc = "run"]]
    /\ UNCHANGED <<clock, heartbeats>>
    /\ UNCHANGED <<regVars, config, streams, groups, monitor, qw, qhist, supVars, shardVars, clientVars>>

\* A dispatch without the except clause: the runner's exception leaves
\* run_periodic_worker.
PwRunnerUncaught(w) ==
    /\ pw[w].pc = "run"
    /\ LET r == pw[w]
           definition == r.tasks[r.ti]
           next_time == clock + Max(definition.interval_seconds, 1)
       IN  \/ pw' = [pw EXCEPT ![w] =
                        [r EXCEPT !.pc = "finish", !.status = "success",
                                  !.error_message = "",
                                  !.next_run_at[r.ti] = next_time]]
           \/ pw' = [pw EXCEPT ![w] = PwStopped(r, "Exception")]
    /\ UNCHANGED <<pstore, clock, heartbeats>>
    /\ UNCHANGED <<regVars, config, streams, groups, monitor, qw, qhist, supVars, shardVars, clientVars>>

\* A fixed-rate schedule: the next run is counted from the time the run
\* was due, not from the time it ended.
PwRunnerFixedRate(w) ==
    /\ pw[w].pc = "run"
    /\ LET r == pw[w]
           definition == r.tasks[r.ti]
           next_time == r.next_run_at[r.ti] + Max(definition.interval_seconds, 1)
       IN  \E failed \in BOOLEAN :
              pw' = [pw EXCEPT ![w] =
                        [r EXCEPT !.pc = "finish",
                                  !.status = IF failed THEN "failed" ELSE "success",
                                  !.error_message = IF failed THEN "boom" ELSE "",
                                  !.next_run_at[r.ti] = next_time]]
    /\ UNCHANGED <<pstore, clock, heartbeats>>
    /\ UNCHANGED <<regVars, config, streams, groups, monitor, qw, qhist, supVars, shardVars, clientVars>>

\* await definition.runner(): it returns or raises; then the next run is
\* scheduled from the time the runner ended.
PwRunner(w) ==
    /\ pw[w].pc = "run"
    /\ LET r == pw[w]
           definition == r.tasks[r.ti]
           next_time == clock + Max(definition.interval_seconds, 1)
       IN  \E failed \in BOOLEAN :
              pw' = [pw EXCEPT ![w] =
                        [r EXCEPT !.pc = "finish",
                                  !.status = IF failed THEN "failed" ELSE "success",
                                  !.error_message = IF failed THEN "boom" ELSE "",
                                  !.next_run_at[r.ti] = next_time]]
    /\ UNCHANGED <<pstore, clock, heartbeats>>
    /\ UNCHANGED <<regVars, config, streams, groups, monitor, qw, qhist, supVars, shardVars, clientVars>>

\* await mark_periodic_finished(...)
PwFinish(w) ==
    /\ pw[w].pc = "finish"
    /\ LET r == pw[w]
           definition == r.tasks[r.ti]
       IN  \E out \in mark_periodic_finished(
                         [task_key |-> definition.key, task_name |-> definition.name,
                          worker_id |-> r.worker_id, status |-> r.status,
                          error |-> r.error_message,
                          next_run_at |-> r.next_run_at[r.ti]]) :
              /\ pstore' = out.pstore
              /\ pw' = [pw EXCEPT ![w] =
                           IF out.raised THEN PwStopped(r, "ConnectionError")
                           ELSE PwAdvance([r EXCEPT !.status = "", !.error_message = ""])]
    /\ UNCHANGED <<clock, heartbeats>>
    /\ UNCHANGED <<regVars, config, streams, groups, monitor, qw, qhist, supVars, shardVars, clientVars>>

\* await asyncio.sleep(0.5)
PwSleep(w) ==
    /\ pw[w].pc = "sleep"
    /\ pw' = [pw EXCEPT ![w].pc = "top"]
    /\ UNCHANGED <<pstore, clock, heartbeats>>
    /\ UNCHANGED <<regVars, config, streams, groups, monitor, qw, qhist, supVars, shardVars, clientVars>>

\* The process is terminated: CancelledError is raised at the await it is at.
PwKill(w) ==
    /\ pw[w].pc \notin {"main", "stopped"}
    /\ pw' = [pw EXCEPT ![w] = PwStopped(pw[w], "CancelledError")]
    /\ UNCHANGED <<pstore, clock, heartbeats>>
    /\ UNCHANGED <<regVars, config, streams, groups, monitor, qw, qhist, supVars, shardVars, clientVars>>

MaxClock == 2

\* A second passes.
Tick ==
    /\ clock < MaxClock
    /\ clock' = clock + 1
    /\ UNCHANGED <<pw, pstore, heartbeats>>
    /\ UNCHANGED <<regVars, config, streams, groups, monitor, qw, qhist, supVars, shardVars, clientVars>>

MaxPeriodicWorkers == 2
MaxPeriodicTasks == 3

\* The periodic spawns of start(), after "http" and the queue workers.
PeriodicSpawns(cfg) ==
    SubSeq(start(cfg), 2 + cfg.queue_workers, Len(start(cfg)))

\* P periodic workers launched by the supervisor's start(); every worker
\* loads the same registrations in the same order.
PeriodicInit ==
    /\ ClientIdle
    /\ \E n \in 0..MaxPeriodicTasks : periodic_tasks = RegisterDemoTasks(n)
    /\ queue_consumers = <<>>
    /\ reg_call = [kind |-> "", key |-> ""]
    /\ reg_raised = ""
    /\ config = <<>>
    /\ streams = <<>>
    /\ groups = <<>>
    /\ monitor = <<>>
    /\ heartbeats = {}
    /\ qw = <<>>
    /\ qhist = <<>>
    /\ SupervisorIdle
    /\ ShardIdle
    /\ \E P \in 1..MaxPeriodicWorkers :
          LET spawns == PeriodicSpawns([queue_workers |-> 0, periodic_workers |-> P])
          IN  pw = [w \in 1..Len(spawns) |-> PwInitial(spawns[w])]
    /\ pstore = <<>>
    /\ clock = 0

PeriodicNext ==
    \/ Tick
    \/ \E w \in 1..Len(pw) :
          \/ PwMain(w)
          \/ PwTop(w)
          \/ PwScan(w)
          \/ PwRunner(w)
          \/ PwFinish(w)
          \/ PwSleep(w)
          \/ PwKill(w)

SpecPeriodic == PeriodicInit /\ [][PeriodicNext]_vars

\* The keys of the tasks a worker holds once it has read its identity.
ShardKeys(w) ==
    IF pw[w].pc = "main" THEN {}
    ELSE {pw[w].tasks[j].key : j \in 1..Len(pw[w].tasks)}

\* The task whose runner a worker is executing, if any.
Running(w) ==
    IF pw[w].pc = "run" THEN {pw[w].tasks[pw[w].ti].key} ELSE {}

\* C8: with the periodic workers of start(), a registered task is in the
\* shard of at most one worker, of exactly one once every worker has read
\* its identity, and no task's runner executes in two workers at once.
C8_OneWorkerPerTask ==
    /\ \A w1, w2 \in 1..Len(pw) :
          w1 # w2 => /\ ShardKeys(w1) \cap ShardKeys(w2) = {}
                     /\ Running(w1) \cap Running(w2) = {}
    /\ (\A w \in 1..Len(pw) : pw[w].pc # "main") =>
          \A i \in 1..Len(list_periodic_tasks) :
              Cardinality({w \in 1..Len(pw) :
                              list_periodic_tasks[i].key \in ShardKeys(w)}) = 1

\* Two workers, three tasks: both execute a runner at the same time, each
\* of its own task.
C8_Witness ==
    /\ Len(pw) = 2
    /\ Len(list_periodic_tasks) = 3
    /\ Running(1) # {}
    /\ Running(2) # {}

(***************************************************************************)
(* The registry driven by its callers: registrations, valid or not, and    *)
(* reset_registry, in any order.                                           *)
(***************************************************************************)

\* The calls of register_periodic_task that are made.
PeriodicInputs ==
    {[key |-> "a", name |-> "first", interval_seconds |-> 1, runner |-> "r1", tags |-> <<>>],
     [key |-> " a ", name |-> "second", interval_seconds |-> 2, runner |-> "r2", tags |-> <<"x">>],
     [key |-> "a", name |-> " ", interval_seconds |-> 1, runner |-> "r1", tags |-> <<>>],
     [key |-> "b", name |-> "first", interval_seconds |-> 1, runner |-> "r1", tags |-> <<>>],
     [key |-> " b ", name |-> "second", interval_seconds |-> 0, runner |-> "r2", tags |-> <<>>],
     [key |-> " ", name |-> "first", interval_seconds |-> 1, runner |-> "r1", tags |-> <<>>],
     [key |-> "b", name |-> "first", interval_seconds |-> -1, runner |-> "r1", tags |-> <<>>]}

\* The calls of register_queue_consumer that are made.
ConsumerInputs ==
    {[key |-> "a", name |-> "first", stream |-> "s1", group |-> "g1", handler |-> "h1",
      tags |-> <<>>, max_retries |-> None, dead_letter_stream |-> None],
     [key |-> " a ", name |-> "second", stream |-> "s2", group |-> "g2", handler |-> "h2",
      tags |-> <<>>, max_retries |-> Some(-1), dead_letter_stream |-> Some(" dlq ")],
     [key |-> "a", name |-> "first", stream |-> " ", group |-> "g1", handler |-> "h1",
      tags |-> <<>>, max_retries |-> None, dead_letter_stream |-> None],
     [key |-> "b", name |-> "first", stream |-> "s1", group |-> " ", handler |-> "h1",
      tags |-> <<>>, max_retries |-> None, dead_letter_stream |-> None],
     [key |-> "b", name |-> "second", stream |-> "s1", group |-> "g1", handler |-> "h2",
      tags |-> <<>>, max_retries |-> Some(1), dead_letter_stream |-> None],
     [key |-> "", name |-> "first", stream |-> "s1", group |-> "g1", handler |-> "h1",
      tags |-> <<>>, max_retries |-> None, dead_letter_stream |-> None],
     [key |-> "b", name |-> " ", stream |-> "s1", group |-> "g1", handler |-> "h1",
      tags |-> <<>>, max_retries |-> None, dead_letter_stream |-> None]}

RegisterPeriodicTask ==
    /\ \E a \in PeriodicInputs :
          LET out == register_periodic_task(periodic_tasks, a)
          IN  /\ periodic_tasks' = out.catalog
              /\ reg_raised' = out.raised
              /\ reg_call' = [kind |-> "periodic", args |-> a]
    /\ UNCHANGED <<queue_consumers, queueVars, supVars, periodicVars, shardVars, clientVars>>

RegisterQueueConsumer ==
    /\ \E a \in ConsumerInputs :
          LET out == register_queue_consumer(queue_consumers, a)
          IN  /\ queue_consumers' = out.catalog
              /\ reg_raised' = out.raised
              /\ reg_call' = [kind |-> "consumer", args |-> a]
    /\ UNCHANGED <<periodic_tasks, queueVars, supVars, periodicVars, shardVars, clientVars>>

ResetRegistry ==
    /\ periodic_tasks' = <<>>
    /\ queue_consumers' = <<>>
    /\ reg_raised' = ""
    /\ reg_call' = [kind |-> "reset", args |-> [key |-> ""]]
    /\ UNCHANGED <<queueVars, supVars, periodicVars, shardVars, clientVars>>

RegistryInit ==
    /\ ClientIdle
    /\ periodic_tasks = <<>>
    /\ queue_consumers = <<>>
    /\ reg_call = [kind |-> "", args |-> [key |-> ""]]
    /\ reg_raised = ""
    /\ config = <<>>
    /\ streams = <<>>
    /\ groups = <<>>
    /\ monitor = <<>>
    /\ heartbeats = {}
    /\ qw = <<>>
    /\ qhist = <<>>
    /\ SupervisorIdle
    /\ PeriodicIdle
    /\ ShardIdle

RegistryNext ==
    \/ RegisterPeriodicTask
    \/ RegisterQueueConsumer
    \/ ResetRegistry

SpecRegistry == RegistryInit /\ [][RegistryNext]_vars

\* C9: registration is not upsert.  A register call whose key (stripped) is
\* already in its catalog raises, with the duplicate-key message when its
\* other arguments are valid, and the catalog is left as it was: the first
\* definition of the key and the same number of entries.
C9_DuplicateKeyRaises ==
    [][/\ (reg_call'.kind = "periodic"
             /\ HasKey(periodic_tasks, Strip(reg_call'.args.key)))
          => /\ reg_raised' # ""
             /\ (Strip(reg_call'.args.name) # "" /\ reg_call'.args.interval_seconds > 0)
                   => reg_raised' = "ValueError:duplicate"
             /\ Len(periodic_tasks') = Len(periodic_tasks)
             /\ periodic_tasks' = periodic_tasks
       /\ (reg_call'.kind = "consumer"
             /\ HasKey(queue_consumers, Strip(reg_call'.args.key)))
          => /\ reg_raised' # ""
             /\ (/\ Strip(reg_call'.args.name) # ""
                 /\ Strip(reg_call'.args.stream) # ""
                 /\ Strip(reg_call'.args.group) # "")
                   => reg_raised' = "ValueError:duplicate"
             /\ Len(queue_consumers') = Len(queue_consumers)
             /\ queue_consumers' = queue_consumers
      ]_vars

\* "a" was registered as "first"; a valid call with the same key and the
\* name "second" raised, and the catalog still holds "first".
C9_Witness ==
    /\ reg_call.kind = "periodic"
    /\ reg_call.args.name = "second"
    /\ Strip(reg_call.args.key) = "a"
    /\ reg_raised = "ValueError:duplicate"
    /\ \E i \in 1..Len(periodic_tasks) :
          /\ periodic_tasks[i].key = "a"
          /\ periodic_tasks[i].name = "first"
          /\ periodic_tasks[i].interval_seconds = 1
          /\ periodic_tasks[i].runner = "r1"
    /\ Len(periodic_tasks) = 2

(***************************************************************************)
(* A process reading the monitor store (the dashboard side):               *)
(* app/services/redis_service.py and the get_* functions of                *)
(* app/services/task_monitor_service.py.  A backend call returns or raises *)
(* (the store may be unreachable at any call).                             *)
(***************************************************************************)

\* get_redis(): the client of the process, made by Redis.from_url on the
\* first call; from_url raises ValueError on a REDIS_URL it cannot parse and
\* does not connect.
get_redis(c) ==
    IF c.redis_client THEN [raised |-> "", redis_client |-> TRUE]
    ELSE IF c.redis_url_valid THEN [raised |-> "", redis_client |-> TRUE]
    ELSE [raised |-> "ValueError", redis_client |-> FALSE]

\* {k: str(v) for k, v in payload.items()} on a hash; an absent key is {}.
StrHash(store, key) ==
    IF key \notin DOMAIN store THEN <<>>
    ELSE [k \in DOMAIN store[key] |->
             IF k \in {"run_count", "success_count", "failure_count",
                       "consume_count", "retry_count", "dead_letter_count"}
             THEN IntToStr(store[key][k]) ELSE store[key][k]]

\* The outcomes of get_periodic_monitor(task_key): what it raises, what it
\* returns, and whether the process has its client afterwards.
get_periodic_monitor(c, task_key) ==
    LET r == get_redis(c)
    IN  IF r.raised # "" THEN {[raised |-> "", result |-> <<>>, redis_client |-> FALSE, backend |-> "not called"]}
        ELSE {[raised |-> "", result |-> <<>>, redis_client |-> TRUE, backend |-> "raised"],
              [raised |-> "", result |-> StrHash(pstore, task_key),
               redis_client |-> TRUE, backend |-> "returned"]}

get_consumer_monitor(c, consumer_key) ==
    LET r == get_redis(c)
    IN  IF r.raised # "" THEN {[raised |-> "", result |-> <<>>, redis_client |-> FALSE, backend |-> "not called"]}
        ELSE {[raised |-> "", result |-> <<>>, redis_client |-> TRUE, backend |-> "raised"],
              [raised |-> "", result |-> StrHash(monitor, consumer_key),
               redis_client |-> TRUE, backend |-> "returned"]}

\* The worker ids the model's workers run under.
WorkerIds == {"queue-0", "queue-1", "periodic-0", "periodic-1"}

\* get_worker_heartbeats(worker_type): the ids of the workers whose key is
\* present (the values, timestamps, are left out); keys() or mget() may raise.
get_worker_heartbeats(c, worker_type) ==
    LET r == get_redis(c)
    IN  IF r.raised # "" THEN {[raised |-> "", result |-> {}, redis_client |-> FALSE, backend |-> "not called"]}
        ELSE {[raised |-> "", result |-> {}, redis_client |-> TRUE, backend |-> "raised"],
              [raised |-> "",
               result |-> {w \in WorkerIds : heartbeat_key(worker_type, w) \in heartbeats},
               redis_client |-> TRUE, backend |-> "returned"]}

\* get_stream_group_pending(stream, group): get_redis() is awaited before
\* the try; xpending raises when the store is unreachable or the group is
\* missing.
get_stream_group_pending(c, stream, group) ==
    LET r == get_redis(c)
    IN  IF r.raised # "" THEN {[raised |-> r.raised, result |-> 0, redis_client |-> FALSE, backend |-> "not called"]}
        ELSE {[raised |-> "", result |-> 0, redis_client |-> TRUE, backend |-> "raised"]}
             \cup (IF GroupKey(stream, group) \in DOMAIN groups
                   THEN {[raised |-> "",
                          result |-> Cardinality(Pending(stream, group)),
                          redis_client |-> TRUE, backend |-> "returned"]}
                   ELSE {})

MaxPending == 2

ClientInitial(redis_url_valid) ==
    [redis_client |-> FALSE, redis_url_valid |-> redis_url_valid,
     call |-> "", args |-> <<>>, raised |-> "", result |-> <<>>, backend |-> ""]

\* The process made a call: what it got is kept.
ClientAfter(call, args, out) ==
    [client EXCEPT !.call = call, !.args = args, !.raised = out.raised,
                   !.result = out.result, !.redis_client = out.redis_client,
                   !.backend = out.backend]

\* The store as the workers left it, and a process that has not yet used
\* its Redis client.
ReadsInit ==
    /\ RegistryIdle
    /\ queue_consumers = <<>>
    /\ SupervisorIdle
    /\ ShardIdle
    /\ config = <<>>
    /\ qw = <<>>
    /\ qhist = <<>>
    /\ pw = <<>>
    /\ clock = 0
    /\ heartbeats \in SUBSET {heartbeat_key("queue", "queue-0"),
                              heartbeat_key("periodic", "periodic-0")}
    /\ pstore \in {<<>>,
                   "task-1" :> [EmptyPeriodicMonitor EXCEPT
                                   !.key = "task-1", !.name = "demo task",
                                   !.last_status = "success", !.worker_id = "periodic-0",
                                   !.next_run_at = Some(2), !.run_count = 1,
                                   !.success_count = 1]}
    /\ monitor \in {<<>>,
                    "a" :> [EmptyConsumerMonitor EXCEPT !.consume_count = 1,
                                                        !.failure_count = 1]}
    /\ \E n \in 0..MaxPending :
          /\ streams = "s1" :> [entries |-> [i \in 1..n |->
                                               [id |-> i, fields |-> EnqueueFields(EventX, 0, 0)]],
                                last_id |-> n]
          /\ \/ groups = <<>>
             \/ \E k \in 0..n :
                   groups = GroupKey("s1", "g1") :>
                               [last_delivered |-> n,
                                pel |-> {[id |-> i, consumer |-> "queue-0"] : i \in 1..k}]
    /\ \E redis_url_valid \in BOOLEAN : client = ClientInitial(redis_url_valid)

ReadPeriodicMonitor ==
    /\ \E task_key \in {"task-1", "task-2"} :
          \E out \in get_periodic_monitor(client, task_key) :
              client' = ClientAfter("get_periodic_monitor", <<task_key>>, out)
    /\ UNCHANGED <<regVars, queueVars, supVars, periodicVars, shardVars>>

ReadConsumerMonitor ==
    /\ \E consumer_key \in {"a", "b"} :
          \E out \in get_consumer_monitor(client, consumer_key) :
              client' = ClientAfter("get_consumer_monitor", <<consumer_key>>, out)
    /\ UNCHANGED <<regVars, queueVars, supVars, periodicVars, shardVars>>

ReadWorkerHeartbeats ==
    /\ \E worker_type \in {"queue", "periodic"} :
          \E out \in get_worker_heartbeats(client, worker_type) :
              client' = ClientAfter("get_worker_heartbeats", <<worker_type>>, out)
    /\ UNCHANGED <<regVars, queueVars, supVars, periodicVars, shardVars>>

ReadStreamGroupPending ==
    /\ \E group \in {"g1", "g2"} :
          \E out \in get_stream_group_pending(client, "s1", group) :
              client' = ClientAfter("get_stream_group_pending", <<"s1", group>>, out)
    /\ UNCHANGED <<regVars, queueVars, supVars, periodicVars, shardVars>>

\* close_redis(): the client of the process is dropped.
CloseRedis ==
    /\ client.redis_client
    /\ client' = [client EXCEPT !.redis_client = FALSE]
    /\ UNCHANGED <<regVars, queueVars, supVars, periodicVars, shardVars>>

ReadsNext ==
    \/ ReadPeriodicMonitor
    \/ ReadConsumerMonitor
    \/ ReadWorkerHeartbeats
    \/ ReadStreamGroupPending
    \/ CloseRedis

SpecReads == ReadsInit /\ [][ReadsNext]_vars

ReadCalls ==
    {"get_periodic_monitor", "get_consumer_monitor", "get_worker_heartbeats",
     "get_stream_group_pending"}

\* C11: monitor-store reads are fail-soft.  No read call raises; when the
\* backend call failed the three map reads return an empty map and the
\* pending count is 0; the pending count of a group with no unacknowledged
\* entry is 0.
C11_ReadsFailSoft ==
    client.call \in ReadCalls =>
        /\ client.raised = ""
        /\ (client.backend # "returned" /\ client.call = "get_stream_group_pending")
              => client.result = 0
        /\ (client.backend # "returned" /\ client.call = "get_worker_heartbeats")
              => client.result = {}
        /\ (client.backend # "returned"
              /\ client.call \in {"get_periodic_monitor", "get_consumer_monitor"})
              => client.result = <<>>
        /\ (client.call = "get_stream_group_pending"
              /\ Pending(client.args[1], client.args[2]) = {})
              => client.result = 0

(***************************************************************************)
(* One queue worker and one periodic worker side by side, each with one    *)
(* registered definition: the two dispatch boundaries.                     *)
(***************************************************************************)

DispatchInit ==
    /\ ClientIdle
    /\ SupervisorIdle
    /\ ShardIdle
    /\ periodic_tasks = RegisterDemoTasks(1)
    /\ queue_consumers = register_queue_consumer(<<>>, DemoConsumer(None, None)).catalog
    /\ reg_call = [kind |-> "", key |-> ""]
    /\ reg_raised = ""
    /\ config = [QUEUE_MAX_RETRIES |-> 1]
    /\ streams = <<>>
    /\ groups = <<>>
    /\ monitor = <<>>
    /\ heartbeats = {}
    /\ qw = [w \in QueueWorkers |->
                IF w = "queue-0" THEN QwInitial ELSE QwStopped(QwInitial, "")]
    /\ qhist = [delivered |-> {}, redelivered |-> {}, handled |-> {},
                routed |-> {}, completed |-> {}]
    /\ pw = [w \in 1..1 |->
                PwInitial(PeriodicSpawns([queue_workers |-> 1, periodic_workers |-> 1])[w])]
    /\ pstore = <<>>
    /\ clock = 0

DispatchNext ==
    \/ QueueNext
    \/ PeriodicNext

SpecDispatch == DispatchInit /\ [][DispatchNext]_vars

\* C12: an exception of a handler or of a runner does not end the worker.
\* A worker inside the handler or the runner stops only when it is
\* cancelled; a worker stops only on cancellation or on an error of the
\* store; when the store answers, the failed message is routed (retry or
\* dead letter), the monitor record says "failed" with one more failure
\* counted, and the worker goes on with its loop.
C12_HandlerErrorsContained ==
    [][/\ \A w \in DOMAIN qw :
             /\ (qw[w].pc = "handler" /\ qw'[w].pc = "stopped")
                   => qw'[w].raised = "CancelledError"
             /\ (qw[w].pc # "stopped" /\ qw'[w].pc = "stopped")
                   => qw'[w].raised \in {"RedisError", "CancelledError"}
             /\ (qw[w].pc = "f_mark" /\ qw'[w].pc \notin {"f_mark", "stopped"})
                   => LET key == definitions[qw[w].ci].key
                      IN  /\ monitor'[key].last_status = "failed"
                          /\ monitor'[key].failure_count
                                = ConsumerMonitor(key).failure_count + 1
                          /\ <<key, qw[w].message_id>> \in qhist.routed
                          /\ qw'[w].pc \in {"read", "top", "sleep"}
       /\ \A w \in DOMAIN pw :
             /\ (pw[w].pc = "run" /\ pw'[w].pc = "stopped")
                   => pw'[w].raised = "CancelledError"
             /\ (pw[w].pc # "stopped" /\ pw'[w].pc = "stopped")
                   => pw'[w].raised \in {"ConnectionError", "CancelledError"}
             /\ (pw[w].pc = "finish" /\ pw[w].status = "failed"
                   /\ pw'[w].pc \notin {"finish", "stopped"})
                   => LET key == pw[w].tasks[pw[w].ti].key
                      IN  /\ pstore'[key].last_status = "failed"
                          /\ pstore'[key].failure_count
                                = PeriodicMonitor(key).failure_count + 1
                          /\ pw'[w].pc \in {"scan", "sleep"}
      ]_vars

\* A handler raised and a runner raised: both failures are on record, the
\* message was dead-lettered at last, and both workers are still running.
C12_Witness ==
    /\ qw["queue-0"].pc \in {"read", "top", "sleep"}
    /\ "a" \in DOMAIN monitor
    /\ monitor["a"].failure_count = 2
    /\ monitor["a"].dead_letter_count = 1
    /\ pw[1].pc \in {"top", "scan", "sleep"}
    /\ "task-1" \in DOMAIN pstore
    /\ pstore["task-1"].failure_count >= 1
    /\ pstore["task-1"].last_status = "failed"

(***************************************************************************)
(* One periodic worker under a clock that runs while it waits: a second    *)
(* passes while a runner executes (a runner takes any time) and in each    *)
(* asyncio.sleep of the loop (0.5 s, counted as a whole second); the other *)
(* statements take no time.                                                *)
(***************************************************************************)

MaxRunnerClock == 12

\* A second passes while some worker is inside definition.runner().
RunnerSecond ==
    /\ clock < MaxRunnerClock
    /\ \E w \in 1..Len(pw) : pw[w].pc = "run"
    /\ clock' = clock + 1
    /\ UNCHANGED <<pw, pstore, heartbeats>>
    /\ UNCHANGED <<regVars, config, streams, groups, monitor, qw, qhist, supVars, shardVars, clientVars>>

\* await asyncio.sleep(0.5), with the time it takes.
PwSleepSecond(w) ==
    /\ pw[w].pc = "sleep"
    /\ clock < MaxRunnerClock
    /\ clock' = clock + 1
    /\ pw' = [pw EXCEPT ![w].pc = "top"]
    /\ UNCHANGED <<pstore, heartbeats>>
    /\ UNCHANGED <<regVars, config, streams, groups, monitor, qw, qhist, supVars, shardVars, clientVars>>

TimedInit ==
    /\ ClientIdle
    /\ SupervisorIdle
    /\ ShardIdle
    /\ \E n \in 0..1 : periodic_tasks = RegisterDemoTasks(n)
    /\ queue_consumers = <<>>
    /\ reg_call = [kind |-> "", key |-> ""]
    /\ reg_raised = ""
    /\ config = <<>>
    /\ streams = <<>>
    /\ groups = <<>>
    /\ monitor = <<>>
    /\ heartbeats = {}
    /\ qw = <<>>
    /\ qhist = <<>>
    /\ pw = [w \in 1..1 |->
                PwInitial(PeriodicSpawns([queue_workers |-> 0, periodic_workers |-> 1])[w])]
    /\ pstore = <<>>
    /\ clock = 0

TimedNext ==
    \/ RunnerSecond
    \/ \E w \in 1..Len(pw) :
          \/ PwMain(w)
          \/ PwTop(w)
          \/ PwScan(w)
          \/ PwRunner(w)
          \/ PwFinish(w)
          \/ PwSleepSecond(w)
          \/ PwKill(w)

SpecTimed == TimedInit /\ [][TimedNext]_vars

\* C13: the heartbeat of a running periodic worker keeps its cadence
\* whatever the runners take: the worker is never past the time its next
\* heartbeat is due (the last write plus 10 s) without having written it.
C13_HeartbeatCadence ==
    \A w \in 1..Len(pw) :
        pw[w].pc \notin {"main", "stopped"} => clock <= pw[w].next_heartbeat

\* C14: drift-based scheduling.  Every task of the shard is due at the time
\* the worker starts; when a run ends, by return or by exception, its next
\* run is set to that time plus the interval (at least 1 s) and that is
\* what the monitor record is given; a run starts only at or after the time
\* it is due.
C14_DriftFromCompletion ==
    [][\A w \in 1..Len(pw) :
          /\ (pw[w].pc = "main" /\ pw'[w].pc = "top")
                => /\ Len(pw'[w].next_run_at) = Len(pw'[w].tasks)
                   /\ \A j \in 1..Len(pw'[w].tasks) : pw'[w].next_run_at[j] = clock
          /\ (pw[w].pc = "scan" /\ pw'[w].pc = "run")
                => /\ pw[w].next_run_at[pw[w].ti] <= pw[w].now
                   /\ pw[w].now <= clock
          /\ (pw[w].pc = "run" /\ pw'[w].pc = "finish")
                => /\ pw'[w].status \in {"success", "failed"}
                   /\ pw'[w].next_run_at[pw[w].ti]
                         = clock + Max(pw[w].tasks[pw[w].ti].interval_seconds, 1)
                   /\ pw'[w].next_run_at[pw[w].ti] >= clock + 1
          /\ (pw[w].pc = "finish" /\ pw'[w].pc \notin {"finish", "stopped"})
                => pstore'[pw[w].tasks[pw[w].ti].key].next_run_at
                      = Some(pw[w].next_run_at[pw[w].ti])
      ]_vars

\* A run that took longer than its interval has ended and the task runs
\* again, later than a fixed-rate schedule would have started it.
C14_Witness ==
    /\ Len(pw) = 1
    /\ pw[1].pc = "run"
    /\ "task-1" \in DOMAIN pstore
    /\ pstore["task-1"].run_count = 1
    /\ pw[1].next_run_at[1] >= 5
    /\ clock >= pw[1].next_run_at[1]

\* C15: cancellation is cooperative.  A worker that has a message in its
\* handler or on its way through ack, retry, dead letter and monitor update,
\* or a task in its runner or in its monitor update, is not stopped by
\* cancellation: it stops by cancellation only between two units of work.
C15_CancelOnlyBetweenUnits ==
    [][/\ \A w \in DOMAIN qw :
             (qw[w].pc # "stopped" /\ qw'[w].pc = "stopped"
                 /\ qw'[w].raised = "CancelledError")
                => qw[w].pc \notin {"handler", "s_ack", "s_mark", "route",
                                    "f_ack", "f_mark"}
       /\ \A w \in DOMAIN pw :
             (pw[w].pc # "stopped" /\ pw'[w].pc = "stopped"
                 /\ pw'[w].raised = "CancelledError")
                => pw[w].pc \notin {"run", "finish"}
      ]_vars

(***************************************************************************)
(* A producer and a reader on one stream: ensure_stream_group,             *)
(* enqueue_task, read_group_messages, parse_stream_message.                *)
(***************************************************************************)

MaxPayloadItems == 2

PayloadKeys == {<<"a">>, <<"k", "\"">>}

PayloadValues ==
    {JStr(<<"x">>), JStr(<<>>), JStr(<<"\\", "U+00E9", "\"">>), JInt(10),
     JInt(-7), JBool(TRUE), JBool(FALSE), JNull}

\* The payload dicts of at most MaxPayloadItems items: distinct keys.
PayloadDicts ==
    UNION { { items \in [1..n -> [key : PayloadKeys, value : PayloadValues]] :
                \A i, j \in 1..n : items[i].key = items[j].key => i = j }
            : n \in 0..MaxPayloadItems }

\* The calls enqueue_task(stream, payload) and
\* enqueue_task(stream, payload, retry_count=r, source_message_id=s).
EnqueueDefaults == [retry_count |-> 0, source_message_id |-> 0]

EnqueueCalls ==
    [payload : PayloadDicts, explicit : {FALSE},
     retry_count : {EnqueueDefaults.retry_count},
     source_message_id : {EnqueueDefaults.source_message_id}]
    \cup [payload : PayloadDicts, explicit : {TRUE},
          retry_count : {0, 1, 10}, source_message_id : {0, 3}]

RoundTripInit ==
    /\ RegistryIdle
    /\ queue_consumers = <<>>
    /\ SupervisorIdle
    /\ PeriodicIdle
    /\ ShardIdle
    /\ config = <<>>
    /\ qw = <<>>
    /\ qhist = <<>>
    /\ monitor = <<>>
    /\ heartbeats = {}
    /\ streams = <<>>
    /\ groups = <<>>
    /\ \E call \in EnqueueCalls :
          client = [pc |-> "ensure", call |-> call, message_id |-> 0,
                    messages |-> <<>>,
                    parsed |-> parse_stream_message(<<>>), raised |-> ""]

roundTripFrame ==
    <<regVars, supVars, periodicVars, shardVars, config, monitor, heartbeats,
      qw, qhist>>

RtRaise(exc) == [client EXCEPT !.pc = "raised", !.raised = exc]

\* ensure_stream_group("s1", "g1")
RtEnsureGroup ==
    /\ client.pc = "ensure"
    /\ \/ /\ ~XGroupCreateBusy("s1", "g1")
          /\ groups' = XGroupCreateGroups("s1", "g1")
          /\ streams' = XGroupCreateStreams("s1")
          /\ client' = [client EXCEPT !.pc = "enqueue"]
       \/ /\ client' = RtRaise("RedisError")
          /\ UNCHANGED <<groups, streams>>
    /\ UNCHANGED roundTripFrame

\* enqueue_task("s1", payload, ...)
RtEnqueue ==
    /\ client.pc = "enqueue"
    /\ \/ /\ \E s \in XAdd("s1",
                           EnqueueFields(client.call.payload,
                                         client.call.retry_count,
                                         client.call.source_message_id),
                           StreamMaxLen) :
                streams' = s
          /\ client' = [client EXCEPT !.pc = "read", !.message_id = XAddId("s1")]
       \/ /\ client' = RtRaise("RedisError")
          /\ UNCHANGED streams
    /\ UNCHANGED <<roundTripFrame, groups>>

\* read_group_messages("s1", "g1", consumer, block_ms, count=1)
RtReadGroup ==
    /\ client.pc = "read"
    /\ \/ /\ ~XReadGroupNoGroup("s1", "g1")
          /\ NewEntries("s1", "g1") = <<>>
          /\ client' = [client EXCEPT !.pc = "parse", !.messages = <<>>]
          /\ UNCHANGED groups
       \/ /\ ~XReadGroupNoGroup("s1", "g1")
          /\ NewEntries("s1", "g1") # <<>>
          /\ LET e == Head(NewEntries("s1", "g1"))
             IN  /\ groups' = XReadGroupGroups("s1", "g1", "reader", e)
                 /\ client' = [client EXCEPT !.pc = "parse", !.messages = <<e>>]
       \/ /\ client' = RtRaise("RedisError")
          /\ UNCHANGED groups
    /\ UNCHANGED <<roundTripFrame, streams>>

\* parse_stream_message(fields) of the first message read
RtParse ==
    /\ client.pc = "parse"
    /\ client' = [client EXCEPT
                    !.pc = "done",
                    !.parsed = IF Len(client.messages) = 0 THEN @
                               ELSE parse_stream_message(client.messages[1].fields)]
    /\ UNCHANGED <<roundTripFrame, streams, groups>>

RoundTripNext == RtEnsureGroup \/ RtEnqueue \/ RtReadGroup \/ RtParse

SpecRoundTrip == RoundTripInit /\ [][RoundTripNext]_vars

\* C16: after ensure_stream_group and enqueue_task on an empty stream, the
\* group read returns exactly one message, the one enqueue_task added, and
\* parse_stream_message of its fields gives back the payload, the retry
\* count and the source id of the call; a call without retry_count and
\* source_message_id reads back as retry count 0 and an empty source id.
C16_EnqueueReadRoundTrip ==
    client.pc = "done" =>
        /\ Len(client.messages) = 1
        /\ client.messages[1].id = client.message_id
        /\ client.parsed.payload = client.call.payload
        /\ client.parsed.retry_count = client.call.retry_count
        /\ client.parsed.source_message_id = client.call.source_message_id
        /\ ~client.call.explicit =>
              /\ client.parsed.retry_count = 0
              /\ client.parsed.source_message_id = 0

C16_Witness ==
    /\ client.pc = "done"
    /\ client.call.explicit
    /\ Len(client.call.payload) = 2
    /\ client.call.payload[1].value = JStr(<<"\\", "U+00E9", "\"">>)
    /\ client.call.payload[2].value = JInt(-7)
    /\ client.call.retry_count = 10
    /\ client.call.source_message_id = 3
    /\ client.parsed.payload = client.call.payload

(***************************************************************************)
(* Callers of ensure_stream_group on a stream in use: messages are         *)
(* enqueued, read by the group and acknowledged, in any order.             *)
(***************************************************************************)

MaxGroupMessages == 3

\* What the server answers to XGROUP CREATE when it does not create the
\* group, and the test ensure_stream_group makes on a ResponseError.
BusyGroupError == "BUSYGROUP Consumer Group name already exists"

OtherResponseErrors ==
    {"WRONGTYPE Operation against a key holding the wrong kind of value"}

ContainsBusyGroup(message) == message = BusyGroupError

GroupInit ==
    /\ RegistryIdle
    /\ queue_consumers = <<>>
    /\ SupervisorIdle
    /\ PeriodicIdle
    /\ ShardIdle
    /\ config = <<>>
    /\ qw = <<>>
    /\ qhist = <<>>
    /\ monitor = <<>>
    /\ heartbeats = {}
    /\ streams = <<>>
    /\ groups = <<>>
    /\ client = [call |-> "", reply |-> "", raised |-> "", delivered |-> {}]

GrReturn(call, reply) ==
    [client EXCEPT !.call = call, !.reply = reply, !.raised = ""]

GrRaise(call, reply) ==
    [client EXCEPT !.call = call, !.reply = reply, !.raised = reply]

\* ensure_stream_group("s1", "g1"): XGROUP CREATE s1 g1 0 MKSTREAM
GrEnsureGroup ==
    /\ \/ /\ ~XGroupCreateBusy("s1", "g1")
          /\ groups' = XGroupCreateGroups("s1", "g1")
          /\ streams' = XGroupCreateStreams("s1")
          /\ client' = GrReturn("ensure", "OK")
       \/ /\ XGroupCreateBusy("s1", "g1")
          /\ IF ContainsBusyGroup(BusyGroupError)
             THEN client' = GrReturn("ensure", BusyGroupError)
             ELSE client' = GrRaise("ensure", BusyGroupError)
          /\ UNCHANGED <<groups, streams>>
       \/ /\ \E message \in OtherResponseErrors :
                IF ContainsBusyGroup(message)
                THEN client' = GrReturn("ensure", message)
                ELSE client' = GrRaise("ensure", message)
          /\ UNCHANGED <<groups, streams>>
       \/ /\ client' = GrRaise("ensure", "ConnectionError")
          /\ UNCHANGED <<groups, streams>>
    /\ UNCHANGED roundTripFrame

\* enqueue_task("s1", {"event": "x"})
GrEnqueue ==
    /\ StreamLastId("s1") < MaxGroupMessages
    /\ \E s \in XAdd("s1", EnqueueFields(EventX, 0, 0), StreamMaxLen) :
          streams' = s
    /\ client' = GrReturn("enqueue", "OK")
    /\ UNCHANGED <<roundTripFrame, groups>>

\* read_group_messages("s1", "g1", "reader", block_ms, count=1)
GrReadGroup ==
    /\ \/ /\ XReadGroupNoGroup("s1", "g1")
          /\ client' = GrRaise("read", "NOGROUP No such key or consumer group")
          /\ UNCHANGED groups
       \/ /\ ~XReadGroupNoGroup("s1", "g1")
          /\ NewEntries("s1", "g1") = <<>>
          /\ client' = GrReturn("read", "OK")
          /\ UNCHANGED groups
       \/ /\ ~XReadGroupNoGroup("s1", "g1")
          /\ NewEntries("s1", "g1") # <<>>
          /\ LET e == Head(NewEntries("s1", "g1"))
             IN  /\ groups' = XReadGroupGroups("s1", "g1", "reader", e)
                 /\ client' = [GrReturn("read", "OK") EXCEPT
                                  !.delivered = @ \cup {e.id}]
    /\ UNCHANGED <<roundTripFrame, streams>>

\* ack_message("s1", "g1", id) of a message the reader holds
GrAck ==
    /\ \E id \in Pending("s1", "g1") :
          groups' = XAck("s1", "g1", id)
    /\ client' = GrReturn("ack", "OK")
    /\ UNCHANGED <<roundTripFrame, streams>>

GroupNext == GrEnsureGroup \/ GrEnqueue \/ GrReadGroup \/ GrAck

SpecGroup == GroupInit /\ [][GroupNext]_vars

C17_NothingLost ==
    GroupKey("s1", "g1") \in DOMAIN groups =>
        \A i \in 1..Len(StreamEntries("s1")) :
            \/ StreamEntries("s1")[i].id \in client.delivered
            \/ \E j \in 1..Len(NewEntries("s1", "g1")) :
                  NewEntries("s1", "g1")[j] = StreamEntries("s1")[i]

C17_Step ==
    (client'.call = "ensure" /\ <<client, groups, streams>>' # <<client, groups, streams>>) =>
        /\ GroupKey("s1", "g1") \notin DOMAIN groups /\ client'.raised = "" =>
              /\ "s1" \in DOMAIN streams'
              /\ StreamEntries("s1")' = StreamEntries("s1")
              /\ groups' = groups @@ (GroupKey("s1", "g1") :>
                                         [last_delivered |-> 0, pel |-> {}])
        /\ GroupKey("s1", "g1") \in DOMAIN groups =>
              /\ groups' = groups
              /\ streams' = streams
              /\ client'.reply = BusyGroupError => client'.raised = ""
        /\ client'.reply \notin {"OK", BusyGroupError} =>
              /\ client'.raised = client'.reply
              /\ groups' = groups
              /\ streams' = streams

\* C17: ensure_stream_group is idempotent.  On an absent group it creates
\* the group at the beginning of the stream, creating the stream if it is
\* missing, so every message of the stream, those enqueued before the group
\* existed included, is delivered to the group or still to be delivered; on
\* an existing group it changes neither the group's position nor its pending
\* entries and the BUSYGROUP answer is not raised; any other error of the
\* backend is raised to the caller.
C17_EnsureGroupIdempotent == []C17_NothingLost /\ [][C17_Step]_vars

\* A message enqueued before the group existed was delivered to the group,
\* and a later ensure_stream_group found the group with a pending entry.
C17_Witness ==
    /\ client.call = "ensure"
    /\ client.reply = BusyGroupError
    /\ client.raised = ""
    /\ 1 \in client.delivered
    /\ Pending("s1", "g1") # {}
    /\ groups[GroupKey("s1", "g1")].last_delivered = 1
    /\ StreamLastId("s1") = 2

\* The strings that are empty after trimming.
Blank == {"", " "}

InvalidPeriodic(a) ==
    a.key \in Blank \/ a.name \in Blank \/ a.interval_seconds <= 0

InvalidConsumer(a) ==
    a.key \in Blank \/ a.name \in Blank \/ a.stream \in Blank \/ a.group \in Blank

ValidationErrors ==
    {"ValueError:key", "ValueError:name", "ValueError:interval",
     "ValueError:stream", "ValueError:group"}

\* C18: a register call with an invalid definition (key or name empty after
\* trimming, interval_seconds <= 0 for a periodic task, stream or group
\* empty after trimming for a consumer) raises the validation error of the
\* first invalid field and leaves both catalogs as they were.
C18_InvalidLeavesCatalogs ==
    [][/\ (reg_call'.kind = "periodic" /\ InvalidPeriodic(reg_call'.args))
          => /\ reg_raised' \in ValidationErrors
             /\ periodic_tasks' = periodic_tasks
             /\ queue_consumers' = queue_consumers
       /\ (reg_call'.kind = "consumer" /\ InvalidConsumer(reg_call'.args))
          => /\ reg_raised' \in ValidationErrors
             /\ periodic_tasks' = periodic_tasks
             /\ queue_consumers' = queue_consumers
      ]_vars

\* Both catalogs hold a definition, and the last call, a consumer with a
\* blank group, raised.
C18_Witness ==
    /\ reg_call.kind = "consumer"
    /\ reg_call.args.group = " "
    /\ reg_raised = "ValueError:group"
    /\ Len(periodic_tasks) = 1
    /\ Len(queue_consumers) = 1

(***************************************************************************)
(* Built-in tasks (app/tasks): load_builtin_tasks and the register_tasks   *)
(* of periodic_builtin and queue_builtin.  client holds the module         *)
(* globals of app.tasks: whether the two modules were imported, _loaded    *)
(* and queue_builtin._DEMO_CONSUMER.                                       *)
(***************************************************************************)

LogCleanupArgs ==
    [key |-> "operation_log_cleanup", name |-> "operation log cleanup",
     interval_seconds |-> Max(config.LOG_CLEANUP_INTERVAL_SECONDS, 30),
     runner |-> "_run_log_cleanup", tags |-> <<"system", "logs">>]

BackupAutoArgs ==
    [key |-> "backup_auto_scheduler", name |-> "backup auto scheduler",
     interval_seconds |-> 60, runner |-> "_run_backup_auto",
     tags |-> <<"system", "backup">>]

DemoEventsArgs ==
    [key |-> "demo_events_consumer", name |-> "demo events consumer",
     stream |-> "pfa:queue:demo_events", group |-> "pfa_demo_group",
     handler |-> "_handle_demo_event", tags |-> <<"system", "demo">>,
     max_retries |-> None, dead_letter_stream |-> None]

\* try: ... except ValueError: the error of the register call is dropped.
ExceptNothing(out) == out

ExceptValueError(out) == [out EXCEPT !.raised = ""]

\* periodic_builtin.register_tasks() on a catalog
PeriodicRegisterTasks(catalog) ==
    LET first == ExceptValueError(register_periodic_task(catalog, LogCleanupArgs))
    IN  IF first.raised # "" THEN first
        ELSE ExceptValueError(register_periodic_task(first.catalog, BackupAutoArgs))

\* queue_builtin.register_tasks() on a catalog: the catalog, what was raised
\* and the new _DEMO_CONSUMER.
QueueRegisterTasks(catalog, demo_consumer) ==
    LET call == register_queue_consumer(catalog, DemoEventsArgs)
        out == ExceptValueError(call)
    IN  [raised |-> out.raised,
         catalog |-> out.catalog,
         demo_consumer |->
            IF call.raised = ""
            THEN Some(call.catalog[Len(call.catalog)])
            ELSE IF out.raised = "" /\ HasKey(catalog, "demo_events_consumer")
                 THEN Some(catalog[CHOOSE i \in 1..Len(catalog) :
                                      catalog[i].key = "demo_events_consumer"])
                 ELSE demo_consumer]

\* The two register_tasks calls in the order load_builtin_tasks makes them;
\* the import of the two modules makes the same two calls.
RegisterBuiltins(g) ==
    LET p == PeriodicRegisterTasks(g.periodic_tasks)
        q == QueueRegisterTasks(g.queue_consumers, g.demo_consumer)
    IN  IF g.raised # "" THEN g
        ELSE IF p.raised # ""
             THEN [g EXCEPT !.raised = p.raised, !.periodic_tasks = p.catalog]
             ELSE [raised |-> q.raised, periodic_tasks |-> p.catalog,
                   queue_consumers |-> q.catalog, demo_consumer |-> q.demo_consumer]

load_builtin_tasks(imported, demo_consumer) ==
    LET g == [raised |-> "", periodic_tasks |-> periodic_tasks,
              queue_consumers |-> queue_consumers, demo_consumer |-> demo_consumer]
    IN  IF imported THEN RegisterBuiltins(g)
        ELSE RegisterBuiltins(RegisterBuiltins(g))

LoadBuiltinTasks ==
    /\ LET out == load_builtin_tasks(client.imported, client.demo_consumer)
       IN  /\ periodic_tasks' = out.periodic_tasks
           /\ queue_consumers' = out.queue_consumers
           /\ reg_raised' = out.raised
           /\ reg_call' = [kind |-> "load", args |-> [key |-> ""]]
           /\ client' = [imported |-> TRUE,
                         loaded |-> client.loaded \/ out.raised = "",
                         demo_consumer |-> out.demo_consumer]
    /\ UNCHANGED <<queueVars, supVars, periodicVars, shardVars>>

BuiltinInit ==
    /\ periodic_tasks = <<>>
    /\ queue_consumers = <<>>
    /\ reg_call = [kind |-> "", args |-> [key |-> ""]]
    /\ reg_raised = ""
    /\ config \in {[LOG_CLEANUP_INTERVAL_SECONDS |-> 30],
                   [LOG_CLEANUP_INTERVAL_SECONDS |-> 3600]}
    /\ streams = <<>>
    /\ groups = <<>>
    /\ monitor = <<>>
    /\ heartbeats = {}
    /\ qw = <<>>
    /\ qhist = <<>>
    /\ SupervisorIdle
    /\ PeriodicIdle
    /\ ShardIdle
    /\ client = [imported |-> FALSE, loaded |-> FALSE, demo_consumer |-> None]

BuiltinNext ==
    \/ LoadBuiltinTasks
    \/ ResetRegistry
    \/ RegisterPeriodicTask
    \/ RegisterQueueConsumer

SpecBuiltin == BuiltinInit /\ [][BuiltinNext]_vars

BuiltinPeriodicKeys == {"operation_log_cleanup", "backup_auto_scheduler"}

BuiltinsPresent ==
    /\ \A k \in BuiltinPeriodicKeys : HasKey(periodic_tasks, k)
    /\ HasKey(queue_consumers, "demo_events_consumer")

\* C19: load_builtin_tasks is idempotent.  It never raises; a call made when
\* the built-in definitions are registered leaves both catalogs with the
\* same definitions in the same order; a call on the empty registry left by
\* reset_registry registers exactly the built-in definitions: the two
\* periodic tasks, in their order, and the demo consumer.
C19_LoadBuiltinIdempotent ==
    [][reg_call'.kind = "load" =>
          /\ reg_raised' = ""
          /\ BuiltinsPresent'
          /\ BuiltinsPresent =>
                /\ periodic_tasks' = periodic_tasks
                /\ queue_consumers' = queue_consumers
          /\ (periodic_tasks = <<>> /\ queue_consumers = <<>>) =>
                /\ Len(periodic_tasks') = 2
                /\ periodic_tasks'[1].key = "operation_log_cleanup"
                /\ periodic_tasks'[1].interval_seconds =
                      config.LOG_CLEANUP_INTERVAL_SECONDS
                /\ periodic_tasks'[2].key = "backup_auto_scheduler"
                /\ periodic_tasks'[2].interval_seconds = 60
                /\ Len(queue_consumers') = 1
                /\ queue_consumers'[1].key = "demo_events_consumer"
                /\ queue_consumers'[1].stream = "pfa:queue:demo_events"
                /\ queue_consumers'[1].group = "pfa_demo_group"
      ]_vars

\* load_builtin_tasks has returned: the two periodic tasks and the demo
\* consumer are registered, and _DEMO_CONSUMER is the registered definition.
C19_Witness ==
    /\ reg_call.kind = "load"
    /\ client.loaded
    /\ BuiltinsPresent
    /\ Len(periodic_tasks) = 2
    /\ Len(queue_consumers) = 1
    /\ client.demo_consumer = Some(queue_consumers[1])

\* The worker ids of the claim, by type and index.
ExpectedWorkerIds ==
    [queue |-> <<"queue-0", "queue-1">>, periodic |-> <<"periodic-0">>]

ExpectedWorker(item, type, count, i) ==
    /\ item.name = ExpectedWorkerIds[type][i + 1]
    /\ item.env_overrides # None
    /\ item.env_overrides[1].PFA_WORKER_ID = ExpectedWorkerIds[type][i + 1]
    /\ ParseInt(item.env_overrides[1].PFA_WORKER_INDEX) = Some(i)
    /\ ParseInt(item.env_overrides[1].PFA_WORKER_TOTAL) = Some(Max(count, 1))

\* C20: once start() has returned the supervisor has spawned one HTTP
\* server, then queue_workers queue workers, then periodic_workers periodic
\* workers; the i-th worker of a type has PFA_WORKER_ID "<type>-i",
\* PFA_WORKER_INDEX i and PFA_WORKER_TOTAL max(count, 1), so the ids of the
\* children are pairwise distinct and the indices of a type are 0..count-1.
C20_StartSpawnsFleet ==
    (sup # <<>> /\ sup.pc \notin {"register", "start"}) =>
        LET q == sup.config.queue_workers
            p == sup.config.periodic_workers
        IN  /\ Len(children) = 1 + q + p
            /\ children[1].name = "http"
            /\ children[1].env_overrides = None
            /\ \A i \in 0..(q - 1) :
                  ExpectedWorker(children[2 + i], "queue", q, i)
            /\ \A i \in 0..(p - 1) :
                  ExpectedWorker(children[2 + q + i], "periodic", p, i)
            /\ \A i, j \in 1..Len(children) :
                  children[i].name = children[j].name => i = j

\* 2 queue workers and 1 periodic worker: 4 children.
C20_Witness ==
    /\ sup # <<>>
    /\ sup.pc = "loop"
    /\ sup.config.queue_workers = 2
    /\ sup.config.periodic_workers = 1
    /\ Len(children) = 4
    /\ children[3].env_overrides[1].PFA_WORKER_ID = "queue-1"
    /\ children[4].env_overrides[1].PFA_WORKER_TOTAL = <<"1">>

\* What parse_stream_message reads of a stream entry.
ParsedEntry(e) == parse_stream_message(e.fields)

C21_RetryLineage ==
    /\ \A name \in DOMAIN streams :
          \A n \in SeqRange(StreamEntries(name)) :
             ("source_message_id" \in DOMAIN n.fields
                 /\ n.fields.source_message_id # 0)
                => \E i \in 1..Len(definitions) : definitions[i].stream = name
    /\ \A i \in 1..Len(definitions) :
          LET d == definitions[i]
          IN  \A n \in SeqRange(StreamEntries(d.stream)) :
                 /\ ParsedEntry(n).retry_count <= EffectiveMaxRetries(d)
                 /\ IF ParsedEntry(n).source_message_id = 0
                    THEN ParsedEntry(n).retry_count = 0
                    ELSE \E e \in SeqRange(StreamEntries(d.stream)) :
                            /\ e.id = ParsedEntry(n).source_message_id
                            /\ e.id < n.id
                            /\ ParsedEntry(n).payload = ParsedEntry(e).payload
                            /\ ParsedEntry(n).retry_count =
                                  ParsedEntry(e).retry_count + 1

C21_EntriesKept ==
    \A name \in DOMAIN streams :
       /\ name \in DOMAIN streams'
       /\ Len(StreamEntries(name)') >= Len(StreamEntries(name))
       /\ SubSeq(StreamEntries(name)', 1, Len(StreamEntries(name)))
             = StreamEntries(name)

C22_SuccessNeverTakesFailurePath ==
    \A i \in 1..Len(definitions) :
       LET d == definitions[i]
       IN  \A e \in SeqRange(StreamEntries(d.stream)) :
              HandlerOutcomes(d, e.id) = {"return"}
                 => /\ RetriesOf(d, e.id) = {}
                    /\ DeadLettersOf(d, e.id) = {}
                    /\ ~(/\ ConsumerMonitor(d.key).last_status = "failed"
                         /\ ConsumerMonitor(d.key).last_message_id = e.id)

InFlight == {"handler", "s_ack", "s_mark", "route", "f_ack", "f_mark"}

\* Worker w is at work on message id of the i-th consumer.
Holds(w, i, id) ==
    /\ qw[w].pc \in InFlight
    /\ qw[w].ci = i
    /\ qw[w].message_id = id

\* A pending message no worker is at work on: the worker it was delivered
\* to has stopped before the ack.
Orphaned(i, id) ==
    /\ id \in Pending(definitions[i].stream, definitions[i].group)
    /\ \A w \in QueueWorkers : ~Holds(w, i, id)

C23_Step ==
    \A i \in 1..Len(definitions) :
       \A id \in Pending(definitions[i].stream, definitions[i].group) :
          Orphaned(i, id)
             => /\ id \in Pending(definitions[i].stream, definitions[i].group)'
                /\ \A w \in QueueWorkers : ~Holds(w, i, id)'
                /\ {h \in qhist'.handled : h.message_id = id}
                      = {h \in qhist.handled : h.message_id = id}

\* C23: a message delivered to a worker that stopped (crash or
\* cancellation) before acknowledging it stays in the group's pending
\* entries and is delivered to no worker again: no group read returns an
\* entry delivered before, and its handler is not invoked a second time.
C23_CrashedMessageStaysPending ==
    [](qhist.redelivered = {}) /\ [][C23_Step]_vars

\* A worker was cancelled with a message in flight, before its handler ran;
\* the message is pending with no worker at work on it, and the other
\* worker sleeps after a sweep that read nothing.
C23_Witness ==
    \E i \in 1..Len(definitions), w, v \in QueueWorkers :
       /\ w # v
       /\ qw[w].pc = "stopped"
       /\ qw[w].raised = "CancelledError"
       /\ qw[v].pc = "sleep"
       /\ \E id \in Pending(definitions[i].stream, definitions[i].group) :
             /\ Orphaned(i, id)
             /\ <<definitions[i].key, id>> \in qhist.delivered
             /\ HandlerOutcomes(definitions[i], id) = {}

(***************************************************************************)
(* One queue worker sweeping two consumers, each with its own stream, the  *)
(* producers enqueueing on both.                                           *)
(***************************************************************************)

MaxSweepMessages == 2

SecondConsumer ==
    [key |-> "b", name |-> "second consumer", stream |-> "s2", group |-> "g2",
     handler |-> "h2", tags |-> <<>>,
     max_retries |-> None, dead_letter_stream |-> None]

SweepInit ==
    /\ ClientIdle
    /\ RegistryIdle
    /\ SupervisorIdle
    /\ PeriodicIdle
    /\ ShardIdle
    /\ queue_consumers =
          register_queue_consumer(
              register_queue_consumer(<<>>, DemoConsumer(None, None)).catalog,
              SecondConsumer).catalog
    /\ config = [QUEUE_MAX_RETRIES |-> 0]
    /\ streams = <<>>
    /\ groups = <<>>
    /\ monitor = <<>>
    /\ heartbeats = {}
    /\ qw = [w \in QueueWorkers |->
                IF w = "queue-0" THEN QwInitial ELSE QwStopped(QwInitial, "")]
    /\ qhist = [delivered |-> {}, redelivered |-> {}, handled |-> {},
                routed |-> {}, completed |-> {}]

\* A producer calls enqueue_task(stream, payload) on a consumer's stream.
SweepEnqueue ==
    /\ \E i \in 1..Len(queue_consumers) :
          /\ Cardinality(Originals(queue_consumers[i].stream)) < MaxSweepMessages
          /\ \E s \in XAdd(queue_consumers[i].stream,
                           EnqueueFields(EventX, 0, 0), StreamMaxLen) :
                streams' = s
    /\ UNCHANGED <<nonQueueVars, config, groups, monitor, heartbeats, qw, qhist>>

\* The steps the worker process takes as long as it runs.
SweepWorkerStep ==
    \E w \in QueueWorkers :
       \/ QwEnsureGroup(w)
       \/ QwTop(w)
       \/ QwRead(w)
       \/ QwHandler(w)
       \/ QwAckSuccess(w)
       \/ QwMarkSuccess(w)
       \/ QwRoute(w)
       \/ QwAckFailure(w)
       \/ QwMarkFailure(w)
       \/ QwSleep(w)

SweepKill == \E w \in QueueWorkers : QwKill(w)

SweepNext == SweepEnqueue \/ SweepWorkerStep \/ SweepKill

SpecSweep == SweepInit /\ [][SweepNext]_vars /\ WF_vars(SweepWorkerStep)

\* The order of the reads: a read for a consumer follows the read, and the
\* full handling of the message read, of the consumer registered before it;
\* the read for the first consumer follows the top of the loop, which is
\* reached only once the sweep has passed the last consumer; the worker
\* sleeps only after a sweep in which no consumer yielded a message.
C24_SweepOrder ==
    \A w \in QueueWorkers :
       /\ (qw'[w].pc = "read" /\ (qw[w].pc # "read" \/ qw'[w].ci # qw[w].ci))
             => \/ qw[w].pc = "top" /\ qw'[w].ci = 1
                \/ /\ qw[w].pc \in {"read", "s_mark", "f_mark"}
                   /\ qw'[w].ci = qw[w].ci + 1
       /\ (qw'[w].pc = "handler" /\ qw[w].pc # "handler")
             => qw[w].pc = "read" /\ qw'[w].ci = qw[w].ci
       /\ (qw'[w].pc = "top" /\ qw[w].pc # "top")
             => \/ qw[w].pc \in {"ensure", "sleep"}
                \/ /\ qw[w].pc \in {"read", "s_mark", "f_mark"}
                   /\ qw[w].ci = Len(definitions)
       /\ (qw'[w].pc = "sleep" /\ qw[w].pc # "sleep" /\ Len(definitions) > 0)
             => /\ ~qw[w].processed
                /\ qw[w].pc = "read"
                /\ qw[w].ci = Len(definitions)

\* Message id is on the stream of the i-th consumer and no group read has
\* returned it.
Unread(i, id) ==
    /\ i \in 1..Len(definitions)
    /\ \E e \in SeqRange(StreamEntries(definitions[i].stream)) : e.id = id
    /\ <<definitions[i].key, id>> \notin qhist.delivered

C24_EventuallyRead ==
    \A i \in 1..2, id \in 1..MaxSweepMessages :
       Unread(i, id) ~> (~Unread(i, id) \/ ~QwLive("queue-0"))

\* C24: in a sweep the worker reads for every consumer in registration
\* order, at most one message per read, and handles that message fully
\* before the next read; it sleeps only when the sweep yielded nothing.  So
\* while the worker runs, a message on the stream of any consumer is
\* eventually read, whatever the backlog of the other consumer.
C24_NoStarvation == [][C24_SweepOrder]_vars /\ C24_EventuallyRead

\* The first consumer has a backlog (a message read, another waiting) and
\* the worker is handling a message of the second consumer.
C24_Witness ==
    /\ qw["queue-0"].pc = "handler"
    /\ qw["queue-0"].ci = 2
    /\ <<definitions[1].key, 1>> \in qhist.delivered
    /\ Unread(1, 2)

C25_Step ==
    /\ \A w \in DOMAIN qw :
          (qw[w].pc = "handler" /\ qw'[w].raised = "CancelledError")
             => /\ qw'[w].pc = "stopped"
                /\ streams' = streams
                /\ groups' = groups
                /\ monitor' = monitor
                /\ qw[w].message_id \in
                      Pending(definitions[qw[w].ci].stream, definitions[qw[w].ci].group)'
    /\ \A w \in DOMAIN pw :
          (pw[w].pc = "run" /\ pw'[w].raised = "CancelledError")
             => /\ pw'[w].pc = "stopped"
                /\ pstore' = pstore
                /\ pw'[w].next_run_at = pw[w].next_run_at

\* C25: a cancellation raised while a queue handler executes leaves the
\* message dispatch as it is: the worker makes no ack, no re-enqueue, no
\* dead-letter write and no monitor update for the message, which stays
\* pending, and the failure path never runs with the cancellation as its
\* error; a cancellation raised inside a periodic runner leaves the worker
\* without a mark_periodic_finished write and with next_run_at unchanged.
C25_CancellationPropagates ==
    /\ [](\A w \in DOMAIN qw : qw[w].error_message # "CancelledError")
    /\ [][C25_Step]_vars

\* Both workers were cancelled at work: the queue worker in a handler, its
\* message still pending and unrouted, and the periodic worker in a runner,
\* the task's record still "running".
C25_Witness ==
    /\ qw["queue-0"].pc = "stopped"
    /\ qw["queue-0"].raised = "CancelledError"
    /\ qhist.handled = {}
    /\ qhist.delivered # {}
    /\ Pending("s1", "g1") # {}
    /\ pw[1].pc = "stopped"
    /\ pw[1].raised = "CancelledError"
    /\ \E k \in DOMAIN pstore : pstore[k].last_status = "running"

\* The task a periodic worker is at work on: between mark_periodic_started
\* and the end of mark_periodic_finished.
PwCurrentKey(w) ==
    IF pw[w].pc \in {"run", "finish"} THEN {pw[w].tasks[pw[w].ti].key} ELSE {}

C26_AtRest ==
    \A w \in 1..Len(pw) :
       pw[w].pc # "stopped" =>
          \A k \in (ShardKeys(w) \cap DOMAIN pstore) \ PwCurrentKey(w) :
             /\ pstore[k].last_status \in {"success", "failed"}
             /\ pstore[k].last_status = "failed" => pstore[k].last_error # ""
             /\ pstore[k].run_count >= 1
             /\ pstore[k].run_count =
                   pstore[k].success_count + pstore[k].failure_count

RecordIn(store, k) ==
    IF k \in DOMAIN store THEN store[k] ELSE EmptyPeriodicMonitor

C26_Step ==
    \A w \in 1..Len(pw) :
       /\ (pw'[w].pc = "run" /\ pw[w].pc # "run")
             => LET k == pw[w].tasks[pw[w].ti].key
                IN  /\ pw[w].pc = "scan"
                    /\ RecordIn(pstore', k).last_status = "running"
                    /\ RecordIn(pstore', k).last_started_at = Some(clock)
                    /\ RecordIn(pstore', k).run_count = RecordIn(pstore, k).run_count
       /\ (pw[w].pc = "finish" /\ pw'[w].pc \notin {"finish", "stopped"})
             => LET k == pw[w].tasks[pw[w].ti].key
                    old == RecordIn(pstore, k)
                    new == RecordIn(pstore', k)
                    ok == IF pw[w].status = "success" THEN 1 ELSE 0
                IN  /\ pw[w].status \in {"success", "failed"}
                    /\ new.last_status = pw[w].status
                    /\ pw[w].status = "failed" => new.last_error # ""
                    /\ new.run_count = old.run_count + 1
                    /\ new.success_count = old.success_count + ok
                    /\ new.failure_count = old.failure_count + (1 - ok)

\* C26: for each run of a periodic task the worker writes status "running"
\* with last_started_at before the runner is invoked and, once the runner
\* has returned or raised, writes "success" or "failed" (with the error),
\* adds 1 to run_count and 1 to exactly one of success_count and
\* failure_count.  So, the worker not having stopped, the record of a task
\* with no run in progress has a status of success or failed and
\* run_count = success_count + failure_count.
C26_PeriodicRunAccounting == []C26_AtRest /\ [][C26_Step]_vars

\* A task has run twice, once with success and once with failure, and its
\* worker is between runs.
C26_Witness ==
    \E w \in 1..Len(pw), k \in DOMAIN pstore :
       /\ pw[w].pc = "sleep"
       /\ k \in ShardKeys(w)
       /\ pstore[k].run_count = 2
       /\ pstore[k].success_count = 1
       /\ pstore[k].failure_count = 1

\* C27: whenever no mark_consumer_result call is in progress, every
\* consumer's record has consume_count = success_count + failure_count and
\* failure_count = retry_count + dead_letter_count, whatever the
\* interleaving of the queue workers that serve the consumer.
C27_ConsumerCountersBalance ==
    \A k \in DOMAIN monitor :
       /\ monitor[k].consume_count
             = monitor[k].success_count + monitor[k].failure_count
       /\ monitor[k].failure_count
             = monitor[k].retry_count + monitor[k].dead_letter_count

(***************************************************************************)
(* The queue worker under consumer definitions with overrides: a           *)
(* max_retries of 0, a dead-letter stream of the consumer's choice, and a  *)
(* dead-letter stream that is the consumer's own stream, which             *)
(* register_queue_consumer accepts.                                        *)
(***************************************************************************)

MaxChainEntries == 4

\* <<QUEUE_MAX_RETRIES, the consumer's max_retries, its dead_letter_stream>>
OverrideDeployments ==
    {<<MaxRetries, Some(0), None>>, <<0, Some(1), Some(" dlq ")>>,
     <<1, None, Some("dlq")>>, <<0, None, Some("s1")>>}

OverrideInit ==
    /\ ClientIdle
    /\ RegistryIdle
    /\ SupervisorIdle
    /\ PeriodicIdle
    /\ ShardIdle
    /\ \E c \in OverrideDeployments :
          /\ queue_consumers =
                register_queue_consumer(<<>>, DemoConsumer(c[2], c[3])).catalog
          /\ config = [QUEUE_MAX_RETRIES |-> c[1]]
    /\ streams = <<>>
    /\ groups = <<>>
    /\ monitor = <<>>
    /\ heartbeats = {}
    /\ qw = [w \in QueueWorkers |-> QwInitial]
    /\ qhist = [delivered |-> {}, redelivered |-> {}, handled |-> {},
                routed |-> {}, completed |-> {}]

\* The run is followed while no stream holds more than MaxChainEntries.
ChainOpen == \A n \in DOMAIN streams : Len(streams[n].entries) <= MaxChainEntries

OverrideEnqueue == ChainOpen /\ Enqueue

OverrideWorkerStep == ChainOpen /\ SweepWorkerStep

OverrideKill == ChainOpen /\ SweepKill

OverrideNext == OverrideEnqueue \/ OverrideWorkerStep \/ OverrideKill

SpecOverride == OverrideInit /\ [][OverrideNext]_vars

\* The entries of the consumer's stream that message id gave rise to: its
\* retry entry, or its dead-letter record when that was written to the
\* consumer's own stream.
Successors(d, id) ==
    {e.id : e \in RetriesOf(d, id)}
       \cup {e.id : e \in {x \in DeadLettersOf(d, id) :
                              resolve_dead_letter_stream(d) = d.stream}}

\* The original message id and everything it gave rise to.
RECURSIVE ChainOf(_, _)
ChainOf(d, id) == {id} \cup UNION {ChainOf(d, n) : n \in Successors(d, id)}

HandledIn(handled, d, ids) ==
    {h \in handled : h.key = d.key /\ h.message_id \in ids}

ChainDeadLetters(d, ids) == UNION {DeadLettersOf(d, c) : c \in ids}

LastOf(ids) == CHOOSE m \in ids : \A c \in ids : c <= m

\* One original message of consumer d causes at most max_retries + 1
\* handler invocations and at most one dead-letter record, and a chain whose
\* every entry has been dealt with ended in a success or in a dead letter.
ChainBounded(d) ==
    \A e \in SeqRange(StreamEntries(d.stream)) :
       IsOriginal(e) =>
          LET chain == ChainOf(d, e.id)
          IN  /\ Cardinality(HandledIn(qhist.handled, d, chain))
                    <= EffectiveMaxRetries(d) + 1
              /\ Cardinality(ChainDeadLetters(d, chain)) <= 1
              /\ (\A c \in chain : <<d.key, c>> \in qhist.completed)
                    => \/ "return" \in HandlerOutcomes(d, LastOf(chain))
                       \/ DeadLettersOf(d, LastOf(chain)) # {}

DeadLetterOffStream(d) == resolve_dead_letter_stream(d) # d.stream

\* Once a dead-letter record is written for a chain, no entry of the chain
\* is handed to the handler and the chain gets no further entry.
C28_Step ==
    \A i \in 1..Len(definitions) :
       LET d == definitions[i]
       IN  DeadLetterOffStream(d) =>
              \A e \in SeqRange(StreamEntries(d.stream)) :
                 (IsOriginal(e) /\ ChainDeadLetters(d, ChainOf(d, e.id)) # {})
                    => /\ HandledIn(qhist'.handled, d, ChainOf(d, e.id))
                             = HandledIn(qhist.handled, d, ChainOf(d, e.id))
                       /\ ChainOf(d, e.id)' = ChainOf(d, e.id)

RedisCallers == {"t1", "t2", "t3"}
MaxRedisCalls == 2
MaxRedisCloses == 1

RedisInit ==
    /\ RegistryIdle
    /\ QueueIdle
    /\ SupervisorIdle
    /\ PeriodicIdle
    /\ ShardIdle
    /\ client = [redis_client |-> 0, locked |-> FALSE, made |-> 0,
                 resets |-> 0, closes |-> 0, closing |-> 0,
                 task |-> [t \in RedisCallers |->
                             [pc |-> "idle", result |-> 0, calls |-> 0]]]

\* if _redis_client is None: _redis_client = Redis.from_url(...), without
\* the test.
LockedBlockNoTest(c) ==
    [c EXCEPT !.redis_client = c.made + 1, !.made = c.made + 1]

\* Lines 24-25, under the lock.
LockedBlock(c) ==
    IF c.redis_client = 0
    THEN [c EXCEPT !.redis_client = c.made + 1, !.made = c.made + 1]
    ELSE c

\* get_redis up to the lock: the client, if there is one, is returned.
GetRedisEnter(t) ==
    /\ client.task[t].pc = "idle"
    /\ client.task[t].calls < MaxRedisCalls
    /\ client' =
          IF client.redis_client # 0
          THEN [client EXCEPT !.task[t].result = client.redis_client,
                              !.task[t].calls = @ + 1]
          ELSE [client EXCEPT !.task[t].pc = "lock", !.task[t].calls = @ + 1]
    /\ UNCHANGED <<regVars, queueVars, supVars, periodicVars, shardVars>>

\* async with _redis_lock: ...; return _redis_client
GetRedisLocked(t) ==
    /\ client.task[t].pc = "lock"
    /\ ~client.locked
    /\ LET c == LockedBlock(client)
       IN  client' = [c EXCEPT !.task[t].pc = "idle",
                               !.task[t].result = c.redis_client]
    /\ UNCHANGED <<regVars, queueVars, supVars, periodicVars, shardVars>>

\* close_redis up to "await _redis_client.aclose()"; with no client it sets
\* _redis_client = None at once.
CloseRedisEnter ==
    /\ client.closing = 0
    /\ client.closes < MaxRedisCloses
    /\ client' = IF client.redis_client # 0
                 THEN [client EXCEPT !.closing = client.redis_client,
                                     !.closes = @ + 1]
                 ELSE [client EXCEPT !.closes = @ + 1]
    /\ UNCHANGED <<regVars, queueVars, supVars, periodicVars, shardVars>>

\* aclose() returns and _redis_client = None is executed, or aclose()
\* raises and the assignment is not reached.
CloseRedisFinish ==
    /\ client.closing # 0
    /\ \/ client' = [client EXCEPT !.closing = 0, !.redis_client = 0,
                                   !.resets = @ + 1]
       \/ client' = [client EXCEPT !.closing = 0]
    /\ UNCHANGED <<regVars, queueVars, supVars, periodicVars, shardVars>>

RedisNext ==
    \/ \E t \in RedisCallers : GetRedisEnter(t)
    \/ \E t \in RedisCallers : GetRedisLocked(t)
    \/ CloseRedisEnter
    \/ CloseRedisFinish

SpecRedis == RedisInit /\ [][RedisNext]_vars

\* A client is constructed only when there is none, and each call returns
\* the process's client of the moment.
C29_Step ==
    /\ client'.made # client.made
          => /\ client.redis_client = 0
             /\ client'.made = client.made + 1
             /\ client'.redis_client = client'.made
    /\ \A t \in RedisCallers :
          (client'.task[t].pc = "idle" /\ client'.task[t].calls # 0
             /\ client'.task[t] # client.task[t])
             => /\ client'.task[t].result = client'.redis_client
                /\ client'.task[t].result # 0

\* C29: under any interleaving of the first calls of get_redis in one
\* process, exactly one client is constructed and every caller receives it,
\* and later calls return it without constructing another: as long as
\* close_redis has not reset the client, at most one client was made and
\* every call that returned returned client 1; a further client is made
\* only after a reset.
C29_OneClient ==
    /\ [](/\ client.made <= client.resets + 1
          /\ client.resets = 0
                => \A t \in RedisCallers :
                      client.task[t].pc = "idle" /\ client.task[t].calls # 0
                         => client.task[t].result = 1)
    /\ [][C29_Step]_vars

\* C29 witness: two tasks entered get_redis while there was no client; one
\* has made client 1 and returned it, the other is still at the lock, and
\* the third task has had client 1 from each of its two calls.
C29_Witness ==
    /\ client.made = 1
    /\ client.resets = 0
    /\ client.task["t1"] = [pc |-> "idle", result |-> 1, calls |-> 1]
    /\ client.task["t2"] = [pc |-> "lock", result |-> 0, calls |-> 1]
    /\ client.task["t3"] = [pc |-> "idle", result |-> 1, calls |-> 2]

(***************************************************************************)
(* The supervisor when a spawn can fail: self._popen_factory(...) raises   *)
(* (the program is missing, the process table is full) and the exception   *)
(* leaves _spawn, start() and, start() being called before the try block,  *)
(* run().                                                                  *)
(***************************************************************************)

\* _spawn: self._popen_factory(command, env=env, text=True) raises.
SupSpawnRaises ==
    /\ sup.pc = "start"
    /\ sup' = [sup EXCEPT !.pc = "raised"]
    /\ UNCHANGED <<children, shist>>
    /\ UNCHANGED <<regVars, queueVars, periodicVars, shardVars, clientVars>>

SpawnFailNext ==
    \/ SupervisorNext
    \/ SupSpawnRaises

SpecSpawnFail == SupervisorInit /\ [][SpawnFailNext]_vars

\* run() is over for child n: it was sent terminate, or it had exited.
TornDown(n) == children[n].terminate_sent \/ poll(children[n]) # None

\* C30: every child the supervisor has spawned is sent a terminate signal,
\* or has already exited, before run() returns or raises, whichever way
\* run() ends, an error while spawning a later child included.
C30_ChildrenTornDownWhenRunEnds ==
    sup.pc \in {"returned", "raised"}
       => \A n \in 1..Len(children) : TornDown(n)

====
